---------------------------- MODULE Spec2Model ----------------------------
(***************************************************************************)
(* Model of the ophelia backend: the retry orchestrator and upload         *)
(* pipeline of internal/alchemyst (retryOperation, AddContextWithRetry,    *)
(* Service.AddWikiContent) and the crawl run of cmd/seed (SeedContent).    *)
(*                                                                         *)
(* Two specifications share the module:                                    *)
(*   SpecUpload  one retry-wrapped provider operation, either an upload    *)
(*               through AddWikiContent or a search through                *)
(*               SearchContextWithRetry, with a cancellable context;       *)
(*   SpecSeed    one run of ContentSeeder.SeedContent over a catalog.      *)
(***************************************************************************)
EXTENDS Integers, Sequences, FiniteSets, TLC

(***************************************************************************)
(* Program constants.                                                      *)
(***************************************************************************)
\* DefaultRetryConfig().MaxRetries
MaxRetries == 4

\* DefaultRetryConfig().BaseDelay, in milliseconds
BaseDelay == 2000

\* DefaultRetryConfig().MaxDelay, in milliseconds
MaxDelay == 15000

(***************************************************************************)
(* Bounds of the model.                                                    *)
(***************************************************************************)
\* the wrapped operation fails on its first failN invocations, failN in 0..MaxFail
MaxFail == 5

\* wall-clock stamps (HHMMSS) that time.Now() may yield are 0..MaxStamp
MaxStamp == 1

\* the catalog of a crawl run holds at most MaxPages pages
MaxPages == 3

VARIABLES
    \* ---- one retry-wrapped operation (SpecUpload) ----
    kind,           \* "add": AddWikiContent -> AddContextWithRetry; "search": SearchContextWithRetry -> retryOperation
    title,          \* AddWikiContent's title argument
    pc,             \* position of the calling goroutine
    attempt,        \* the loop variable of the retry loop
    err,            \* the loop's err local: the last operation error
    failN,          \* the operation fails on its first failN invocations and succeeds afterwards
    calls,          \* invocations of the wrapped operation so far
    cancelled,      \* ctx.Done() is closed
    cancelAt,       \* the position at which the context was cancelled ("none" while it is not)
    callsAtCancel,  \* calls at the moment of the cancellation
    fileName,       \* req.Documents[0].FileName
    source,         \* req.Source of the add request ("none" before the request is built)
    sent,           \* the add requests sent: [name, err] per invocation of AddContext
    delays,         \* the backoff delays waited or being waited (ms)
    deleteOutcome,  \* outcome of the pre-upload DeleteContext: "none", "ok", "fail"
    retryEntered,   \* AddContextWithRetry / retryOperation has been called
    retryResult,    \* what the retry loop returned
    result,         \* what AddWikiContent / SearchContextWithRetry returned
    \* ---- one crawl run (SpecSeed) ----
    catalog,        \* ArchWikiPages
    pageLimit,      \* the --limit flag
    spc,            \* position of SeedContent
    pages,          \* SeedContent's local slice, sorted and truncated
    idx,            \* index of the next page of the loop (1-based)
    visited,        \* titles handed to processPage, in order
    outcomes,       \* processPage's result per visited page
    processed,      \* cs.processed: the set of titles marked true
    errors,         \* cs.errors
    seedReturn,     \* SeedContent's return value
    \* ---- processPage and the metadata store (SpecPage) ----
    dryRun,         \* the --dry-run flag; with it main leaves alchemystService and repoManager nil
    metaRows,       \* the content_metadata table: a sequence of rows [title, hash, status]
    written,        \* per title, the hash of the latest metadata write that succeeded ("none": no write)
    metaWrites,     \* Create and Update calls made on the metadata repository
    crawls,         \* processPage calls finished
    ppc,            \* position of processPage
    pTitle,         \* page.Title of the page being processed
    pHash,          \* contentHash of the extracted content
    pSections,      \* len(extractedSections)
    secIdx,         \* index of the next section to upload (1-based)
    pVisit,         \* how the fetch and extraction ended
    providerLog,    \* requests made to the provider: [op, source]
    pResult,        \* what processPage returned
    pSecTitles,     \* the titles of the extracted sections, in extraction order
    pLogAtStart,    \* the number of requests the provider had received when processPage was entered
    pMeta,          \* the page's metadata upsert: "none", "skipped", "written" or "failed"
    pRowsAtStart,   \* the content_metadata table when processPage was entered
    pRun,           \* the pages the loop of SeedContent has finished: [title, err, slept]
    \* ---- Client.makeRequest (SpecClient) ----
    cpc,            \* position of makeRequest
    cEndpoint,      \* the endpoint called: /add, /search or /delete
    cTransport,     \* whether httpClient.Do returns a response
    cStatus,        \* resp.StatusCode
    cReadOk,        \* whether io.ReadAll of the response body succeeds
    cServerResults, \* the results the server put in its body
    cBody,          \* the response body on the wire, as tokens
    cErr,           \* the error returned, as the tokens of its message (<<>>: nil)
    cResults,       \* response.Results as SearchContext returns it
    \* ---- SearchService.preprocessQuery (SpecQuery) ----
    qpc,            \* position: before or after preprocessQuery
    qRaw,           \* the raw query, as a sequence of characters
    qOut,           \* what preprocessQuery returned
    \* ---- SearchService.SearchForSolution (SpecSearch) ----
    svpc,           \* position of SearchForSolution
    svQuery,        \* errorQuery, as a sequence of characters
    svProcessed,    \* processedQuery
    svProviderOk,   \* whether the provider search succeeds
    svProviderResults,\* the provider's results: [contextID, content]
    svConverted,    \* searchResults after convertAlchemystResults
    svReturned,     \* the results SearchForSolution returned
    svErr,          \* the error SearchForSolution returned
    \* ---- SearchHandler.HandleSearch and HandleFeedback (SpecHandler) ----
    hpc,            \* position of the handler
    hReq,           \* the request: its kind, whether its JSON is well formed, its query or feedback type
    hEnv,           \* how the cache, the live search and the feedback repository will answer
    hQuery,         \* query, after strings.TrimSpace
    hResults,       \* results
    hCacheReads,    \* GetCachedSearchResults calls made
    hCacheWrites,   \* CacheSearchResults calls made
    hProviderCalls, \* searchService.SearchForSolution calls made
    hPending,       \* analytics goroutines started and not yet run
    hAnalytics,     \* analytics writes made, in order
    hStatus,        \* the HTTP status written (0: none yet)
    hBody,          \* the results in the response
    hResponses,     \* responses written
    hFeedbackRows,  \* user_feedback rows created
    \* ---- the uploads of one crawl run, page by page (SpecRun) ----
    rpc,            \* position in processPage past the dry-run check: "main", "sections", "returned"; "done" after the last page
    rPages,         \* the pages of the run as extracted: [title, sections], sections the headlines in extraction order
    rPage,          \* index of the page being processed
    rSec,           \* index of the next section of the loop
    rLog,           \* the requests the provider received during the run: [op, source]
    rBase,          \* Len(rLog) when the page was entered
    rUploads,       \* the uploadToAlchemyst calls of the page, in order: [part, ok], part 0 the main content
    rResults,       \* what processPage returned for the pages finished
    \* ---- updatePopularQueries tasks and the popular_queries row (SpecPopular) ----
    pqCounts,        \* the result count of each search of the query text, one updatePopularQueries task per search
    pqStep,          \* per task: "inc" before IncrementCount, "stats" before UpdateStats, "done"; <<>> when off
    pqRow,           \* the row of the query text: [exists, search_count, avg], avg in hundredths as decimal(5,2) stores it
    pqFailed,        \* a statement of some task returned an error
    \* ---- the rate limiter middleware (SpecLimiter) ----
    rlRate,         \* rl.rate, the configured requests per minute
    rlNow,          \* the clock, in ticks of 30 seconds
    visitors,       \* rl.visitors: per IP [exists, lastSeen, count]
    rlSent,         \* per IP, the times of the requests that reached the middleware
    rlAdmitted,     \* per IP, the times of the requests passed on with c.Next()
    rlRejected,     \* per IP, the number of 429 answers
    \* ---- retryOperation under the request context of HandleSearch (SpecDeadline) ----
    dpc,            \* position in retryOperation: "check", "operation", "wait", "returned"
    dNow,           \* milliseconds since HandleSearch made its context
    dAttempt,       \* the loop variable attempt
    dCalls,         \* calls of operation() made
    dResult,        \* what retryOperation returned
    \* ---- ContentProcessor.CleanContent applied twice (SpecClean) ----
    clpc,           \* "input", "once" after the first application, "twice" after the second
    clInput,        \* the text, a sequence of characters
    clOnce,         \* CleanContent(clInput)
    clTwice         \* CleanContent(clOnce)

upVars == <<kind, title, pc, attempt, err, failN, calls, cancelled, cancelAt,
            callsAtCancel, fileName, source, sent, delays, deleteOutcome,
            retryEntered, retryResult, result>>

seedVars == <<catalog, pageLimit, spc, pages, idx, visited, outcomes,
              processed, errors, seedReturn>>

pageVars == <<dryRun, metaRows, written, metaWrites, crawls, ppc, pTitle, pHash,
              pSections, secIdx, pVisit, providerLog, pResult, pSecTitles,
              pLogAtStart, pMeta, pRowsAtStart, pRun>>

clientVars == <<cpc, cEndpoint, cTransport, cStatus, cReadOk, cServerResults, cBody, cErr, cResults>>

queryVars == <<qpc, qRaw, qOut>>

searchVars == <<svpc, svQuery, svProcessed, svProviderOk, svProviderResults, svConverted, svReturned, svErr>>

handlerVars == <<hpc, hReq, hEnv, hQuery, hResults, hCacheReads, hCacheWrites, hProviderCalls, hPending, hAnalytics, hStatus, hBody, hResponses, hFeedbackRows>>

runVars == <<rpc, rPages, rPage, rSec, rLog, rBase, rUploads, rResults>>

popularVars == <<pqCounts, pqStep, pqRow, pqFailed>>

limiterVars == <<rlRate, rlNow, visitors, rlSent, rlAdmitted, rlRejected>>

deadlineVars == <<dpc, dNow, dAttempt, dCalls, dResult>>

cleanVars == <<clpc, clInput, clOnce, clTwice>>

\* the variables of the specifications other than SpecUpload and SpecSeed
extVars == <<pageVars, clientVars, queryVars, searchVars, handlerVars, runVars, popularVars, limiterVars, deadlineVars, cleanVars>>

vars == <<upVars, seedVars, extVars>>

\* what the actions of SpecPage leave alone
notPageVars == <<upVars, seedVars, clientVars, queryVars, searchVars, handlerVars, runVars, popularVars, limiterVars, deadlineVars, cleanVars>>

\* what the actions of SpecClient leave alone
notClientVars == <<upVars, seedVars, pageVars, queryVars, searchVars, handlerVars, runVars, popularVars, limiterVars, deadlineVars, cleanVars>>

\* what the actions of SpecQuery leave alone
notQueryVars == <<upVars, seedVars, pageVars, clientVars, searchVars, handlerVars, runVars, popularVars, limiterVars, deadlineVars, cleanVars>>

\* what the actions of SpecSearch leave alone
notSearchVars == <<upVars, seedVars, pageVars, clientVars, queryVars, handlerVars, runVars, popularVars, limiterVars, deadlineVars, cleanVars>>

\* what the actions of SpecHandler leave alone
notHandlerVars == <<upVars, seedVars, pageVars, clientVars, queryVars, searchVars, runVars, popularVars, limiterVars, deadlineVars, cleanVars>>

\* what the actions of SpecRun leave alone
notRunVars == <<upVars, seedVars, pageVars, clientVars, queryVars, searchVars, handlerVars, popularVars, limiterVars, deadlineVars, cleanVars>>

\* what the actions of SpecPopular leave alone
notPopularVars == <<upVars, seedVars, pageVars, clientVars, queryVars, searchVars, handlerVars, runVars, limiterVars, deadlineVars, cleanVars>>

\* what the actions of SpecLimiter leave alone
notLimiterVars == <<upVars, seedVars, pageVars, clientVars, queryVars, searchVars, handlerVars, runVars, popularVars, deadlineVars, cleanVars>>

\* what the actions of SpecDeadline leave alone
notDeadlineVars == <<upVars, seedVars, pageVars, clientVars, queryVars, searchVars, handlerVars, runVars, popularVars, limiterVars, cleanVars>>

\* what the actions of SpecClean leave alone
notCleanVars == <<upVars, seedVars, pageVars, clientVars, queryVars, searchVars, handlerVars, runVars, popularVars, limiterVars, deadlineVars>>

PageIdle ==
    /\ dryRun = FALSE
    /\ metaRows = <<>>
    /\ written = <<>>
    /\ metaWrites = 0
    /\ crawls = 0
    /\ ppc = "off"
    /\ pTitle = "none"
    /\ pHash = "none"
    /\ pSections = 0
    /\ secIdx = 1
    /\ pVisit = "none"
    /\ providerLog = <<>>
    /\ pResult = "none"
    /\ pSecTitles = <<>>
    /\ pLogAtStart = 0
    /\ pMeta = "none"
    /\ pRowsAtStart = <<>>
    /\ pRun = <<>>

ClientIdle ==
    /\ cpc = "off"
    /\ cEndpoint = "none"
    /\ cTransport = FALSE
    /\ cStatus = 0
    /\ cReadOk = FALSE
    /\ cServerResults = <<>>
    /\ cBody = <<>>
    /\ cErr = <<>>
    /\ cResults = <<>>

QueryIdle ==
    /\ qpc = "off"
    /\ qRaw = <<>>
    /\ qOut = <<>>

SearchIdle ==
    /\ svpc = "off"
    /\ svQuery = <<>>
    /\ svProcessed = <<>>
    /\ svProviderOk = FALSE
    /\ svProviderResults = <<>>
    /\ svConverted = <<>>
    /\ svReturned = <<>>
    /\ svErr = "none"

HandlerIdle ==
    /\ hpc = "off"
    /\ hReq = <<>>
    /\ hEnv = <<>>
    /\ hQuery = <<>>
    /\ hResults = <<>>
    /\ hCacheReads = 0
    /\ hCacheWrites = 0
    /\ hProviderCalls = 0
    /\ hPending = {}
    /\ hAnalytics = <<>>
    /\ hStatus = 0
    /\ hBody = <<>>
    /\ hResponses = 0
    /\ hFeedbackRows = <<>>

RunIdle ==
    /\ rpc = "off"
    /\ rPages = <<>>
    /\ rPage = 0
    /\ rSec = 0
    /\ rLog = <<>>
    /\ rBase = 0
    /\ rUploads = <<>>
    /\ rResults = <<>>

PopularIdle ==
    /\ pqCounts = <<>>
    /\ pqStep = <<>>
    /\ pqRow = [exists |-> FALSE, search_count |-> 0, avg |-> 0]
    /\ pqFailed = FALSE

LimiterIdle ==
    /\ rlRate = 0
    /\ rlNow = 0
    /\ visitors = <<>>
    /\ rlSent = <<>>
    /\ rlAdmitted = <<>>
    /\ rlRejected = <<>>

DeadlineIdle ==
    /\ dpc = "off"
    /\ dNow = 0
    /\ dAttempt = 0
    /\ dCalls = 0
    /\ dResult = [kind |-> "none", retries |-> 0, cause |-> "none"]

CleanIdle ==
    /\ clpc = "off"
    /\ clInput = <<>>
    /\ clOnce = <<>>
    /\ clTwice = <<>>

\* the specifications other than SpecUpload and SpecSeed are not running
ExtIdle == PageIdle /\ ClientIdle /\ QueryIdle /\ SearchIdle /\ HandlerIdle /\ RunIdle /\ PopularIdle /\ LimiterIdle /\ DeadlineIdle /\ CleanIdle

(***************************************************************************)
(* Errors and results.                                                     *)
(***************************************************************************)
\* error texts the provider call can fail with, by what the text contains
ErrClass == {"File name already exists", "BAD_REQUEST", "status 500"}

NoResult == [kind |-> "none", retries |-> 0, cause |-> "none"]

Nil == [kind |-> "nil", retries |-> 0, cause |-> "none"]

\* ctx.Err()
CtxErr == [kind |-> "context canceled", retries |-> 0, cause |-> "none"]

\* mutant of Wrapped: the message counts the attempts made, not the retries
WrappedCountsAttempts(e) ==
    [kind |-> "operation failed after retries", retries |-> MaxRetries + 1, cause |-> e]

\* fmt.Errorf("operation failed after %d retries: %w", config.MaxRetries, err)
Wrapped(e) == [kind |-> "operation failed after retries", retries |-> MaxRetries, cause |-> e]

\* strings.Contains(err.Error(), "File name already exists") || strings.Contains(err.Error(), "BAD_REQUEST")
IsNameCollision(e) == e \in {"File name already exists", "BAD_REQUEST"}

(***************************************************************************)
(* File names: a name is a sequence of tokens, each a text with a number.  *)
(***************************************************************************)
Tok(t, n) == [lit |-> t, n |-> n]

TxtSuffix == Tok(".txt", 0)

\* fmt.Sprintf("%s-%s-%d.txt", title, timestamp, now.UnixNano()%1000)
InitialFileName(t, stamp) == <<Tok(t, 0), Tok("-", stamp), TxtSuffix>>

\* strings.TrimSuffix(name, ".txt")
TrimSuffix(name) ==
    IF Len(name) > 0 /\ name[Len(name)] = TxtSuffix
    THEN SubSeq(name, 1, Len(name) - 1)
    ELSE name

\* mutant of NewName: the new name is the first name's stem and the timestamp alone
NewNameStampOnly(originalName, att, stamp) ==
    <<originalName[1], Tok("-", stamp), TxtSuffix>>

\* fmt.Sprintf("%s-retry%d-%s.txt", strings.TrimSuffix(originalName, ".txt"), attempt+1, timestamp)
NewName(originalName, att, stamp) ==
    TrimSuffix(originalName) \o <<Tok("-retry", att + 1), Tok("-", stamp), TxtSuffix>>

\* mutant of RenameOnConflict: every failure renames the file
RenameOnAnyError(name, e, att, stamp) == NewName(name, att, stamp)

\* the file name the next attempt carries after a failure with error e
RenameOnConflict(name, e, att, stamp) ==
    IF IsNameCollision(e) THEN NewName(name, att, stamp) ELSE name

\* fmt.Sprintf("arch-wiki/%s", title)
SourceKey(t) == <<"arch-wiki/", t>>

(***************************************************************************)
(* The retry policy.                                                       *)
(***************************************************************************)
RECURSIVE Pow(_, _)
Pow(b, e) == IF e = 0 THEN 1 ELSE b * Pow(b, e - 1)

DelayDoubling(att) ==
    LET d == BaseDelay * Pow(2, att)
    IN  IF d > MaxDelay THEN MaxDelay ELSE d

\* time.Duration(float64(config.BaseDelay) * math.Pow(1.5, float64(attempt))), capped at MaxDelay
Delay(att) ==
    LET d == (BaseDelay * Pow(3, att)) \div Pow(2, att)
    IN  IF d > MaxDelay THEN MaxDelay ELSE d

\* mutant of IsLastAttempt: the loop gives up one attempt early
IsLastAttemptOneEarly(att) == att = MaxRetries - 1

\* if attempt == config.MaxRetries { return fmt.Errorf(...) }
IsLastAttempt(att) == att = MaxRetries

\* mutant of NextAttempt: a retry caused by a name collision does not count
NextAttemptFreeRename(att, e) == IF IsNameCollision(e) THEN att ELSE att + 1

\* attempt++ of the for loop, after a failure with error e
NextAttempt(att, e) == att + 1

\* mutant of CtxDone: the loop never looks at the context
CtxNeverDone(c) == FALSE

\* case <-ctx.Done() of the loop's two selects: ready once the context is cancelled
CtxDone(c) == c

\* the operation's outcome on its n-th invocation (n counted from 1): the set of
\* errors it may return, "none" standing for success
OperationOutcomes(n) == IF n <= failN THEN ErrClass ELSE {"none"}

(***************************************************************************)
(* Initial states of SpecUpload.                                           *)
(***************************************************************************)
Titles == {"Pacman", "GRUB/Tips"}

SeedIdle ==
    /\ catalog = <<>>
    /\ pageLimit = 0
    /\ spc = "idle"
    /\ pages = <<>>
    /\ idx = 1
    /\ visited = <<>>
    /\ outcomes = <<>>
    /\ processed = {}
    /\ errors = <<>>
    /\ seedReturn = "none"

InitUpload ==
    /\ kind \in {"add", "search"}
    /\ title \in Titles
    /\ pc = IF kind = "add" THEN "delete" ELSE "call"
    /\ attempt = 0
    /\ err = "none"
    /\ failN \in 0..MaxFail
    /\ calls = 0
    /\ cancelled = FALSE
    /\ cancelAt = "none"
    /\ callsAtCancel = 0
    \* now is stamp 0; the stamps of the later renames are drawn from 0..MaxStamp,
    \* so each of them may equal it or differ from it
    /\ fileName = IF kind = "add" THEN InitialFileName(title, 0) ELSE <<>>
    /\ source = "none"
    /\ sent = <<>>
    /\ delays = <<>>
    /\ deleteOutcome = "none"
    /\ retryEntered = FALSE
    /\ retryResult = NoResult
    /\ result = NoResult
    /\ SeedIdle
    /\ ExtIdle

(***************************************************************************)
(* The caller's context.                                                   *)
(***************************************************************************)
\* cancel() of the caller's context, at any moment before the call returns
Cancel ==
    /\ pc # "done"
    /\ ~cancelled
    /\ cancelled' = TRUE
    /\ cancelAt' = pc
    /\ callsAtCancel' = calls
    /\ UNCHANGED <<kind, title, pc, attempt, err, failN, calls, fileName, source,
                   sent, delays, deleteOutcome, retryEntered, retryResult, result>>
    /\ UNCHANGED <<seedVars, extVars>>

(***************************************************************************)
(* Service.AddWikiContent.                                                 *)
(***************************************************************************)
\* mutant of AfterDelete: a failed delete ends AddWikiContent
AfterDeleteAbortOnFailure(ok) == IF ok THEN "sleep" ELSE "ret"

\* where AddWikiContent goes after DeleteContext returned
AfterDelete(ok) == IF ok THEN "sleep" ELSE "call"

\* s.client.DeleteContext(deleteReq): its error is logged, never returned
AddWikiContent_Delete ==
    /\ kind = "add"
    /\ pc = "delete"
    /\ \E ok \in BOOLEAN :
          /\ deleteOutcome' = IF ok THEN "ok" ELSE "fail"
          /\ pc' = AfterDelete(ok)
    /\ UNCHANGED <<kind, title, attempt, err, failN, calls, cancelled, cancelAt,
                   callsAtCancel, fileName, source, sent, delays, retryEntered,
                   retryResult, result>>
    /\ UNCHANGED <<seedVars, extVars>>

\* time.Sleep(3 * time.Second) after a successful delete
AddWikiContent_Sleep ==
    /\ kind = "add"
    /\ pc = "sleep"
    /\ pc' = "call"
    /\ UNCHANGED <<kind, title, attempt, err, failN, calls, cancelled, cancelAt,
                   callsAtCancel, fileName, source, sent, delays, deleteOutcome,
                   retryEntered, retryResult, result>>
    /\ UNCHANGED <<seedVars, extVars>>

\* req := AddContextRequest{...}; s.client.AddContextWithRetry(ctx, req)
AddWikiContent_Call ==
    /\ kind = "add"
    /\ pc = "call"
    /\ source' = SourceKey(title)
    /\ retryEntered' = TRUE
    /\ attempt' = 0
    /\ pc' = "check"
    /\ UNCHANGED <<kind, title, err, failN, calls, cancelled, cancelAt,
                   callsAtCancel, fileName, sent, delays, deleteOutcome,
                   retryResult, result>>
    /\ UNCHANGED <<seedVars, extVars>>

\* return s.client.AddContextWithRetry(ctx, req)
AddWikiContent_Return ==
    /\ kind = "add"
    /\ pc = "ret"
    /\ result' = retryResult
    /\ pc' = "done"
    /\ UNCHANGED <<kind, title, attempt, err, failN, calls, cancelled, cancelAt,
                   callsAtCancel, fileName, source, sent, delays, deleteOutcome,
                   retryEntered, retryResult>>
    /\ UNCHANGED <<seedVars, extVars>>

(***************************************************************************)
(* Client.AddContextWithRetry.                                             *)
(***************************************************************************)
\* select { case <-ctx.Done(): return ctx.Err(); default: }
AddContextWithRetry_Check ==
    /\ kind = "add"
    /\ pc = "check"
    /\ IF CtxDone(cancelled)
       THEN /\ retryResult' = CtxErr
            /\ pc' = "ret"
       ELSE /\ pc' = "invoke"
            /\ UNCHANGED retryResult
    /\ UNCHANGED <<kind, title, attempt, err, failN, calls, cancelled, cancelAt,
                   callsAtCancel, fileName, source, sent, delays, deleteOutcome,
                   retryEntered, result>>
    /\ UNCHANGED <<seedVars, extVars>>

\* err := c.AddContext(req) and the rest of the iteration up to the backoff select
AddContextWithRetry_Invoke ==
    /\ kind = "add"
    /\ pc = "invoke"
    /\ \E e \in OperationOutcomes(calls + 1), stamp \in 0..MaxStamp :
          /\ calls' = calls + 1
          /\ sent' = Append(sent, [name |-> fileName, err |-> e])
          /\ err' = e
          /\ IF e = "none"
             THEN /\ retryResult' = Nil
                  /\ pc' = "ret"
                  /\ UNCHANGED <<fileName, delays>>
             ELSE /\ fileName' = RenameOnConflict(fileName, e, attempt, stamp)
                  /\ IF IsLastAttempt(attempt)
                     THEN /\ retryResult' = Wrapped(e)
                          /\ pc' = "ret"
                          /\ UNCHANGED delays
                     ELSE /\ delays' = Append(delays, Delay(attempt))
                          /\ pc' = "wait"
                          /\ UNCHANGED retryResult
    /\ UNCHANGED <<kind, title, attempt, failN, cancelled, cancelAt,
                   callsAtCancel, source, deleteOutcome, retryEntered, result>>
    /\ UNCHANGED <<seedVars, extVars>>

\* select { case <-ctx.Done(): return ctx.Err(); case <-time.After(delay): }
\* when both channels are ready the runtime picks either case
AddContextWithRetry_Wait ==
    /\ kind = "add"
    /\ pc = "wait"
    /\ \/ /\ CtxDone(cancelled)
          /\ retryResult' = CtxErr
          /\ pc' = "ret"
          /\ UNCHANGED attempt
       \/ /\ attempt' = NextAttempt(attempt, err)
          /\ pc' = "check"
          /\ UNCHANGED retryResult
    /\ UNCHANGED <<kind, title, err, failN, calls, cancelled, cancelAt,
                   callsAtCancel, fileName, source, sent, delays, deleteOutcome,
                   retryEntered, result>>
    /\ UNCHANGED <<seedVars, extVars>>

(***************************************************************************)
(* Client.SearchContextWithRetry and Client.retryOperation.                *)
(***************************************************************************)
\* err := c.retryOperation(ctx, func() error {...})
SearchContextWithRetry_Call ==
    /\ kind = "search"
    /\ pc = "call"
    /\ retryEntered' = TRUE
    /\ attempt' = 0
    /\ pc' = "check"
    /\ UNCHANGED <<kind, title, err, failN, calls, cancelled, cancelAt,
                   callsAtCancel, fileName, source, sent, delays, deleteOutcome,
                   retryResult, result>>
    /\ UNCHANGED <<seedVars, extVars>>

\* return result, err
SearchContextWithRetry_Return ==
    /\ kind = "search"
    /\ pc = "ret"
    /\ result' = retryResult
    /\ pc' = "done"
    /\ UNCHANGED <<kind, title, attempt, err, failN, calls, cancelled, cancelAt,
                   callsAtCancel, fileName, source, sent, delays, deleteOutcome,
                   retryEntered, retryResult>>
    /\ UNCHANGED <<seedVars, extVars>>

\* select { case <-ctx.Done(): return ctx.Err(); default: }
retryOperation_Check ==
    /\ kind = "search"
    /\ pc = "check"
    /\ IF CtxDone(cancelled)
       THEN /\ retryResult' = CtxErr
            /\ pc' = "ret"
       ELSE /\ pc' = "invoke"
            /\ UNCHANGED retryResult
    /\ UNCHANGED <<kind, title, attempt, err, failN, calls, cancelled, cancelAt,
                   callsAtCancel, fileName, source, sent, delays, deleteOutcome,
                   retryEntered, result>>
    /\ UNCHANGED <<seedVars, extVars>>

\* err := operation() and the rest of the iteration up to the backoff select
retryOperation_Invoke ==
    /\ kind = "search"
    /\ pc = "invoke"
    /\ \E e \in OperationOutcomes(calls + 1) :
          /\ calls' = calls + 1
          /\ err' = e
          /\ IF e = "none"
             THEN /\ retryResult' = Nil
                  /\ pc' = "ret"
                  /\ UNCHANGED delays
             ELSE IF IsLastAttempt(attempt)
                  THEN /\ retryResult' = Wrapped(e)
                       /\ pc' = "ret"
                       /\ UNCHANGED delays
                  ELSE /\ delays' = Append(delays, Delay(attempt))
                       /\ pc' = "wait"
                       /\ UNCHANGED retryResult
    /\ UNCHANGED <<kind, title, attempt, failN, cancelled, cancelAt,
                   callsAtCancel, fileName, source, sent, deleteOutcome,
                   retryEntered, result>>
    /\ UNCHANGED <<seedVars, extVars>>

\* select { case <-ctx.Done(): return ctx.Err(); case <-time.After(delay): }
retryOperation_Wait ==
    /\ kind = "search"
    /\ pc = "wait"
    /\ \/ /\ CtxDone(cancelled)
          /\ retryResult' = CtxErr
          /\ pc' = "ret"
          /\ UNCHANGED attempt
       \/ /\ attempt' = NextAttempt(attempt, err)
          /\ pc' = "check"
          /\ UNCHANGED retryResult
    /\ UNCHANGED <<kind, title, err, failN, calls, cancelled, cancelAt,
                   callsAtCancel, fileName, source, sent, delays, deleteOutcome,
                   retryEntered, result>>
    /\ UNCHANGED <<seedVars, extVars>>

NextUpload ==
    \/ Cancel
    \/ AddWikiContent_Delete
    \/ AddWikiContent_Sleep
    \/ AddWikiContent_Call
    \/ AddWikiContent_Return
    \/ AddContextWithRetry_Check
    \/ AddContextWithRetry_Invoke
    \/ AddContextWithRetry_Wait
    \/ SearchContextWithRetry_Call
    \/ SearchContextWithRetry_Return
    \/ retryOperation_Check
    \/ retryOperation_Invoke
    \/ retryOperation_Wait

SpecUpload == InitUpload /\ [][NextUpload]_vars

(***************************************************************************)
(* Properties of the retry wrapper and the upload (SpecUpload).            *)
(***************************************************************************)
NeverCancelled == cancelAt = "none"

AllSentFailedWith(e) == \A i \in 1..Len(sent) : sent[i].err = e

\* C1: an operation that fails on its first N invocations and succeeds on the next,
\* N smaller than the number of attempts (N <= MaxRetries), under a context that is
\* never cancelled: the wrapper returns nil and the operation ran exactly N+1 times.
C1_FailNThenSucceed ==
    (pc = "done" /\ NeverCancelled /\ failN <= MaxRetries)
        => (result = Nil /\ calls = failN + 1)

C1_Witness ==
    /\ pc = "done"
    /\ NeverCancelled
    /\ failN = MaxRetries
    /\ calls = MaxRetries + 1
    /\ result = Nil

\* C2: an operation that fails on every invocation, context never cancelled: it is
\* invoked exactly MaxRetries+1 times, one backoff is waited per failure but the
\* last, and the error returned wraps the last operation error and carries the
\* retry count MaxRetries.
C2_AlwaysFails ==
    (pc = "done" /\ NeverCancelled /\ failN > MaxRetries)
        => /\ calls = MaxRetries + 1
           /\ Len(delays) = MaxRetries
           /\ result.kind = "operation failed after retries"
           /\ result.retries = MaxRetries
           /\ result.cause = err
           /\ err \in ErrClass

C2_Witness ==
    /\ pc = "done"
    /\ NeverCancelled
    /\ failN > MaxRetries
    /\ calls = MaxRetries + 1
    /\ result.kind = "operation failed after retries"

\* C3 (as stated): one upload through AddContextWithRetry sends the add request
\* at most 4 times.
C3_AtMostFourSends == kind = "add" => Len(sent) <= 4

\* C3 (amended): one upload through AddContextWithRetry sends the add request at
\* most MaxRetries+1 = 5 times, whatever the mix of errors: every send, after a
\* name collision or not, uses up one attempt of the same budget.
C3_AtMostFiveSends ==
    kind = "add" =>
        /\ Len(sent) <= MaxRetries + 1
        /\ Len(sent) = calls
        /\ Len(sent) <= attempt + 1

C3_Witness ==
    /\ kind = "add"
    /\ pc = "done"
    /\ Len(sent) = 5
    /\ \E i, j \in 1..Len(sent) :
          /\ sent[i].err = "File name already exists"
          /\ sent[j].err = "status 500"

\* C4: a context cancelled before an attempt starts (at the loop's head, or before
\* the loop is entered) or during a backoff wait: the operation is never invoked
\* after the cancellation and the loop returns the context's error itself.
C4_CancellationStopsRetry ==
    cancelAt \in {"delete", "sleep", "call", "check", "wait"}
        => /\ calls = callsAtCancel
           /\ (pc \in {"ret", "done"} => retryResult = CtxErr)

C4_Witness ==
    /\ pc = "done"
    /\ cancelAt = "wait"
    /\ calls = 2
    /\ result = CtxErr

\* C5: an upload whose every attempt is rejected with "File name already exists":
\* the file names sent are pairwise distinct.
C5_CollisionNamesDistinct ==
    (kind = "add" /\ AllSentFailedWith("File name already exists"))
        => \A i, j \in 1..Len(sent) : i # j => sent[i].name # sent[j].name

C5_Witness ==
    /\ kind = "add"
    /\ pc = "done"
    /\ Len(sent) = MaxRetries + 1
    /\ AllSentFailedWith("File name already exists")

\* C6: the file name changes only after a failure of the name-collision class (an
\* error text holding "File name already exists" or "BAD_REQUEST"); after any other
\* failure the next attempt carries the same file name.
C6_RenameOnlyOnCollision ==
    kind = "add" =>
        /\ \A i \in 1..(Len(sent) - 1) :
              sent[i].err \notin {"File name already exists", "BAD_REQUEST"}
                  => sent[i + 1].name = sent[i].name
        /\ (Len(sent) > 0 /\ pc # "invoke"
              /\ sent[Len(sent)].err \notin {"File name already exists", "BAD_REQUEST"})
                  => fileName = sent[Len(sent)].name

C6_Witness ==
    /\ kind = "add"
    /\ Len(sent) = 3
    /\ sent[1].err = "status 500"
    /\ sent[2].name = sent[1].name
    /\ sent[2].err = "File name already exists"
    /\ sent[3].name # sent[2].name

\* C7: AddWikiContent calls the retry-wrapped add whether the pre-upload delete
\* succeeded or failed, under source key arch-wiki/<title>, and returns exactly
\* what the retry-wrapped add returned: never the delete's error.
C7_DeleteNeverBlocksWrite ==
    (kind = "add" /\ pc = "done")
        => /\ deleteOutcome \in {"ok", "fail"}
           /\ retryEntered
           /\ source = <<"arch-wiki/", title>>
           /\ result = retryResult
           /\ result \in {Nil, CtxErr} \cup {Wrapped(e) : e \in ErrClass}

C7_Witness ==
    /\ kind = "add"
    /\ pc = "done"
    /\ deleteOutcome = "fail"
    /\ Len(sent) = 2
    /\ result = Nil

(***************************************************************************)
(* ContentSeeder.SeedContent: one crawl run.                               *)
(***************************************************************************)
\* priorities of the catalog entries the model draws from
Priorities == {5, 7, 10}

\* WikiPageConfig; the title, the catalog's unique key, is the entry's position
Page(i, prio) == [title |-> i, priority |-> prio]

\* the catalogs of at most MaxPages pages
Catalogs ==
    UNION {{[i \in 1..n |-> Page(i, f[i])] : f \in [1..n -> Priorities]} : n \in 0..MaxPages}

\* values of the --limit flag
Limits == (-1)..(MaxPages + 1)

\* pages[i], pages[j] = pages[j], pages[i]
Swap(p, i, j) == [p EXCEPT ![i] = p[j], ![j] = p[i]]

\* for j := i + 1; j < len(pages); j++ { if pages[i].Priority < pages[j].Priority { swap } }
RECURSIVE SortInner(_, _, _)
SortInner(p, i, j) ==
    IF j > Len(p)
    THEN p
    ELSE SortInner(IF p[i].priority < p[j].priority THEN Swap(p, i, j) ELSE p, i, j + 1)

\* for i := 0; i < len(pages)-1; i++ { ... }
RECURSIVE SortOuter(_, _)
SortOuter(p, i) ==
    IF i >= Len(p) THEN p ELSE SortOuter(SortInner(p, i, i + 1), i + 1)

\* the priority sort of SeedContent, on a copy of the catalog
SortByPriority(p) == SortOuter(p, 1)

\* mutant of ApplyLimit: the truncation keeps one page too few
ApplyLimitOneShort(p, limit) ==
    IF limit > 0 /\ limit < Len(p) THEN SubSeq(p, 1, limit - 1) ELSE p

\* if *pageLimit > 0 && *pageLimit < len(pages) { pages = pages[:*pageLimit] }
ApplyLimit(p, limit) ==
    IF limit > 0 /\ limit < Len(p) THEN SubSeq(p, 1, limit) ELSE p

\* what processPage returns: nil, or one of its errors
ProcessPageOutcomes ==
    {"nil", "failed to visit page", "processing error",
     "no content extracted from page", "failed to upload main content"}

\* fmt.Errorf("failed to process %s: %w", page.Title, err)
PageError(t, cause) == [title |-> t, cause |-> cause]

\* mutant of NextIndex: a failed page ends the loop
NextIndexStopOnError(i, n, out) == IF out = "nil" THEN i + 1 ELSE n + 1

\* the range loop's next index after page i of n, whatever processPage returned
NextIndex(i, n, out) == i + 1

UploadIdle ==
    /\ kind = "none"
    /\ title = "none"
    /\ pc = "idle"
    /\ attempt = 0
    /\ err = "none"
    /\ failN = 0
    /\ calls = 0
    /\ cancelled = FALSE
    /\ cancelAt = "none"
    /\ callsAtCancel = 0
    /\ fileName = <<>>
    /\ source = "none"
    /\ sent = <<>>
    /\ delays = <<>>
    /\ deleteOutcome = "none"
    /\ retryEntered = FALSE
    /\ retryResult = NoResult
    /\ result = NoResult

InitSeed ==
    /\ catalog \in Catalogs
    /\ pageLimit \in Limits
    /\ spc = "sort"
    /\ pages = <<>>
    /\ idx = 1
    /\ visited = <<>>
    /\ outcomes = <<>>
    /\ processed = {}
    /\ errors = <<>>
    /\ seedReturn = "none"
    /\ UploadIdle
    /\ ExtIdle

\* copy(pages, ArchWikiPages), the priority sort and the page limit
SeedContent_Prepare ==
    /\ spc = "sort"
    /\ pages' = ApplyLimit(SortByPriority(catalog), pageLimit)
    /\ idx' = 1
    /\ spc' = "loop"
    /\ UNCHANGED <<catalog, pageLimit, visited, outcomes, processed, errors, seedReturn>>
    /\ UNCHANGED <<upVars, extVars>>

\* one iteration of "for i, page := range pages": processPage and its bookkeeping
SeedContent_ProcessPage ==
    /\ spc = "loop"
    /\ idx <= Len(pages)
    /\ \E out \in ProcessPageOutcomes :
          /\ visited' = Append(visited, pages[idx].title)
          /\ outcomes' = Append(outcomes, out)
          /\ IF out = "nil"
             THEN /\ processed' = processed \cup {pages[idx].title}
                  /\ UNCHANGED errors
             ELSE /\ errors' = Append(errors, PageError(pages[idx].title, out))
                  /\ UNCHANGED processed
          /\ idx' = NextIndex(idx, Len(pages), out)
    /\ UNCHANGED <<catalog, pageLimit, spc, pages, seedReturn>>
    /\ UNCHANGED <<upVars, extVars>>

\* the report after the loop, and return nil
SeedContent_Report ==
    /\ spc = "loop"
    /\ idx > Len(pages)
    /\ seedReturn' = "nil"
    /\ spc' = "done"
    /\ UNCHANGED <<catalog, pageLimit, pages, idx, visited, outcomes, processed, errors>>
    /\ UNCHANGED <<upVars, extVars>>

NextSeed ==
    \/ SeedContent_Prepare
    \/ SeedContent_ProcessPage
    \/ SeedContent_Report

SpecSeed == InitSeed /\ [][NextSeed]_vars

(***************************************************************************)
(* Properties of the crawl run (SpecSeed).                                 *)
(***************************************************************************)
TitlesOf(p) == [i \in 1..Len(p) |-> p[i].title]

FailedIdx == {i \in 1..Len(outcomes) : outcomes[i] # "nil"}

\* the pages are processed in non-increasing priority order
SortedDescending ==
    spc # "sort" =>
        \A i, j \in 1..Len(pages) : i < j => pages[i].priority >= pages[j].priority

\* C8: the pages are processed in non-increasing priority order, and two pages of
\* equal priority are processed in the order in which the catalog lists them.
C8_DescendingAndStable ==
    spc # "sort" =>
        \A i, j \in 1..Len(pages) :
            i < j => /\ pages[i].priority >= pages[j].priority
                     /\ (pages[i].priority = pages[j].priority
                            => pages[i].title < pages[j].title)

\* C9: every page of the sorted and truncated list is processed exactly once, in
\* order, whether or not earlier pages failed; at the end of the run the error list
\* holds one entry per failed page, naming its title, the processed set holds the
\* pages that succeeded, and SeedContent returns nil.
C9_FailureIsolation ==
    spc = "done" =>
        /\ visited = TitlesOf(pages)
        /\ Len(outcomes) = Len(pages)
        /\ Len(errors) = Cardinality(FailedIdx)
        /\ \A i \in FailedIdx :
              Cardinality({k \in 1..Len(errors) : errors[k].title = pages[i].title}) = 1
        /\ processed = {pages[i].title : i \in (1..Len(pages)) \ FailedIdx}
        /\ seedReturn = "nil"

\* the two-page catalog with priorities 10 and 5 whose priority-10 page fails
C9_Witness ==
    /\ spc = "done"
    /\ catalog = <<Page(1, 10), Page(2, 5)>>
    /\ outcomes = <<"failed to visit page", "nil">>
    /\ visited = <<1, 2>>
    /\ Len(errors) = 1
    /\ errors[1].title = 1
    /\ processed = {2}

\* C10: with limit L and a catalog of n pages, 0 < L < n: exactly the first L
\* pages of the priority-sorted list are processed; L = 0 or L >= n: every page is.
C10_PageLimit ==
    spc = "done" =>
        LET sorted == TitlesOf(SortByPriority(catalog))
            n == Len(catalog)
        IN  /\ (0 < pageLimit /\ pageLimit < n)
                  => visited = SubSeq(sorted, 1, pageLimit)
            /\ (pageLimit = 0 \/ pageLimit >= n)
                  => /\ visited = sorted
                     /\ {visited[i] : i \in 1..Len(visited)} = 1..n

C10_Witness ==
    /\ spc = "done"
    /\ Len(catalog) = 3
    /\ pageLimit = 2
    /\ Len(visited) = 2
    /\ catalog[3].priority = 10
    /\ visited[1] = 3

\* ======================================================================
\* processPage and updateContentMetadata (cmd/seed/main.go), with the
\* content_metadata repository (ContentMetadataRepositoryImpl)
\* ======================================================================

MaxCrawls == 2
MaxSections == 2

PageTitles == {"Pacman", "GRUB"}
Hashes == {"h1", "h2"}

\* the ways the fetch and extraction of a page end
VisitOutcomes == {"visit error", "processing error", "empty", "ok"}

Row(t, h, st) == [title |-> t, hash |-> h, status |-> st]

RECURSIVE RowsOf(_)
\* the table holding a "pending" row with an older hash for each title of ts
RowsOf(ts) ==
    IF ts = {} THEN <<>>
    ELSE LET t == CHOOSE x \in ts : TRUE
         IN <<Row(t, "h0", "pending")>> \o RowsOf(ts \ {t})

\* the wiki_page_title column is UNIQUE: an insert of a title already there is rejected
UniqueTitleHolds(rows, t) == \A i \in 1..Len(rows) : rows[i].title # t

\* GetByTitle: the first row with that title was found
HasRow(rows, t) == \E i \in 1..Len(rows) : rows[i].title = t

UpdateRowAppends(rows, t, h) == Append(rows, Row(t, h, "completed"))

\* Update(existing) after the fields of existing were overwritten in place
UpdateRow(rows, t, h) ==
    [i \in 1..Len(rows) |->
        IF rows[i].title = t THEN Row(t, h, "completed") ELSE rows[i]]

\* Create(contentMetadata): a new row for the page
CreateRow(rows, t, h) == Append(rows, Row(t, h, "completed"))

MetadataEnabled(dry, repoNil) == ~dry /\ ~repoNil

UploadNeverSkipped(dry) == FALSE

\* processPage returns nil before any upload when --dry-run is set
UploadSkipped(dry) == dry

\* main builds the repository manager and the provider service only without --dry-run
RepoManagerNil(dry) == dry
AlchemystServiceNil(dry) == dry

\* the headline of the i-th section of a page whose headlines all differ
Headline(i) == "Section_" \o ToString(i)

\* sectionTitle := fmt.Sprintf("%s/%s", page.Title, section.Title)
SectionTitle(t, sec) == t \o "/" \o sec

\* the source key AddWikiContent derives from the title it is given
PageSource(t) == "arch-wiki/" \o t

\* AddWikiContent: the delete request, then the add request(s)
UploadRequests(t) ==
    << [op |-> "delete", source |-> PageSource(t)],
       [op |-> "add", source |-> PageSource(t)] >>

MetadataErrorStops(ok) == ~ok

\* the error of updateContentMetadata is logged as a warning, nothing more
MetadataErrorFatal(ok) == FALSE

AfterSectionStopsOnFailure(i, ok, n) == IF ok THEN i + 1 ELSE n + 1

\* the section loop continues with the next section after a failed upload
AfterSection(i, ok, n) == i + 1

\* time.Sleep(500 * time.Millisecond) is reached only past the error branch's continue
SleepsAfter(res) == res = "nil"

InitPage ==
    /\ dryRun \in BOOLEAN
    /\ \E ts \in SUBSET PageTitles : metaRows = RowsOf(ts)
    /\ written = [t \in PageTitles |-> "none"]
    /\ metaWrites = 0
    /\ crawls = 0
    /\ ppc = "idle"
    /\ pTitle = "none"
    /\ pHash = "none"
    /\ pSections = 0
    /\ secIdx = 1
    /\ pVisit = "none"
    /\ providerLog = <<>>
    /\ pResult = "none"
    /\ pSecTitles = <<>>
    /\ pLogAtStart = 0
    /\ pMeta = "none"
    /\ pRowsAtStart = metaRows
    /\ pRun = <<>>
    /\ UploadIdle
    /\ SeedIdle
    /\ ClientIdle
    /\ QueryIdle
    /\ SearchIdle
    /\ HandlerIdle
    /\ RunIdle
    /\ PopularIdle
    /\ LimiterIdle
    /\ DeadlineIdle
    /\ CleanIdle

\* c.Visit and the OnHTML / OnError callbacks, up to the content == "" check
processPage_Visit ==
    /\ ppc = "idle"
    /\ crawls < MaxCrawls
    /\ \E t \in PageTitles, out \in VisitOutcomes, h \in Hashes, n \in 0..MaxSections :
        /\ pTitle' = t
        /\ pVisit' = out
        /\ secIdx' = 1
        /\ IF out = "ok"
             THEN /\ pHash' = h
                  /\ pSections' = n
                  /\ pSecTitles' = [i \in 1..n |-> Headline(i)]
                  /\ pResult' = "none"
                  /\ ppc' = "extracted"
             ELSE /\ pHash' = "none"
                  /\ pSections' = 0
                  /\ pSecTitles' = <<>>
                  /\ pResult' = out
                  /\ ppc' = "returned"
    /\ pLogAtStart' = Len(providerLog)
    /\ pMeta' = "none"
    /\ pRowsAtStart' = metaRows
    /\ UNCHANGED pRun
    /\ UNCHANGED <<dryRun, metaRows, written, metaWrites, crawls, providerLog>>
    /\ UNCHANGED notPageVars

\* updateContentMetadata: GetByTitle, then Update of the row found or Create;
\* its error is only logged
processPage_Metadata ==
    /\ ppc = "extracted"
    /\ IF MetadataEnabled(dryRun, RepoManagerNil(dryRun))
         THEN \E getOk \in BOOLEAN, writeOk \in BOOLEAN :
                /\ getOk => HasRow(metaRows, pTitle)
                /\ metaWrites' = metaWrites + 1
                /\ IF getOk
                     THEN IF writeOk
                            THEN /\ metaRows' = UpdateRow(metaRows, pTitle, pHash)
                                 /\ written' = [written EXCEPT ![pTitle] = pHash]
                                 /\ pMeta' = "written"
                            ELSE /\ UNCHANGED <<metaRows, written>>
                                 /\ pMeta' = "failed"
                     ELSE IF writeOk /\ UniqueTitleHolds(metaRows, pTitle)
                            THEN /\ metaRows' = CreateRow(metaRows, pTitle, pHash)
                                 /\ written' = [written EXCEPT ![pTitle] = pHash]
                                 /\ pMeta' = "written"
                            ELSE /\ UNCHANGED <<metaRows, written>>
                                 /\ pMeta' = "failed"
         ELSE /\ UNCHANGED <<metaRows, written, metaWrites>>
              /\ pMeta' = "skipped"
    /\ IF MetadataErrorFatal(pMeta' # "failed")
         THEN /\ ppc' = "returned"
              /\ pResult' = "failed to update content metadata"
         ELSE /\ ppc' = "metadata done"
              /\ UNCHANGED pResult
    /\ UNCHANGED <<dryRun, crawls, pTitle, pHash, pSections, secIdx, pVisit,
                   providerLog, pSecTitles, pLogAtStart, pRowsAtStart, pRun>>
    /\ UNCHANGED notPageVars

\* if *dryRun { ...; return nil }
processPage_DryRun ==
    /\ ppc = "metadata done"
    /\ UploadSkipped(dryRun)
    /\ pResult' = "nil"
    /\ ppc' = "returned"
    /\ UNCHANGED <<dryRun, metaRows, written, metaWrites, crawls, pTitle, pHash,
                   pSections, secIdx, pVisit, providerLog, pSecTitles, pLogAtStart,
                   pMeta, pRowsAtStart, pRun>>
    /\ UNCHANGED notPageVars

\* uploadToAlchemyst for the main content; its failure ends processPage
processPage_UploadMain ==
    /\ ppc = "metadata done"
    /\ ~UploadSkipped(dryRun)
    /\ IF AlchemystServiceNil(dryRun)
         THEN /\ pResult' = "failed to upload main content"
              /\ ppc' = "returned"
              /\ UNCHANGED providerLog
         ELSE /\ providerLog' = providerLog \o UploadRequests(pTitle)
              /\ \E ok \in BOOLEAN :
                    /\ IF ok
                         THEN /\ ppc' = "sections"
                              /\ UNCHANGED pResult
                         ELSE /\ pResult' = "failed to upload main content"
                              /\ ppc' = "returned"
    /\ UNCHANGED <<dryRun, metaRows, written, metaWrites, crawls, pTitle, pHash,
                   pSections, secIdx, pVisit, pSecTitles, pLogAtStart, pMeta,
                   pRowsAtStart, pRun>>
    /\ UNCHANGED notPageVars

\* one iteration of the section loop; a failed section upload is logged and skipped
processPage_UploadSection ==
    /\ ppc = "sections"
    /\ secIdx <= pSections
    /\ \E ok \in BOOLEAN :
        /\ IF AlchemystServiceNil(dryRun)
             THEN /\ ~ok
                  /\ UNCHANGED providerLog
             ELSE providerLog' = providerLog \o
                      UploadRequests(SectionTitle(pTitle, pSecTitles[secIdx]))
        /\ secIdx' = AfterSection(secIdx, ok, pSections)
    /\ UNCHANGED <<dryRun, metaRows, written, metaWrites, crawls, ppc, pTitle, pHash,
                   pSections, pVisit, pResult, pSecTitles, pLogAtStart, pMeta,
                   pRowsAtStart, pRun>>
    /\ UNCHANGED notPageVars

\* the return nil after the section loop
processPage_Return ==
    /\ ppc = "sections"
    /\ secIdx > pSections
    /\ pResult' = "nil"
    /\ ppc' = "returned"
    /\ UNCHANGED <<dryRun, metaRows, written, metaWrites, crawls, pTitle, pHash,
                   pSections, secIdx, pVisit, providerLog, pSecTitles, pLogAtStart,
                   pMeta, pRowsAtStart, pRun>>
    /\ UNCHANGED notPageVars

\* SeedContent's loop after processPage returned: the error is appended to
\* cs.errors and the loop continues, or the page is marked processed and
\* the loop sleeps; then the next page
SeedContent_NextPage ==
    /\ ppc = "returned"
    /\ crawls' = crawls + 1
    /\ pRun' = Append(pRun, [title |-> pTitle, err |-> pResult,
                             slept |-> SleepsAfter(pResult)])
    /\ ppc' = "idle"
    /\ UNCHANGED <<dryRun, metaRows, written, metaWrites, pTitle, pHash,
                   pSections, secIdx, pVisit, providerLog, pResult, pSecTitles,
                   pLogAtStart, pMeta, pRowsAtStart>>
    /\ UNCHANGED notPageVars

NextPage ==
    \/ processPage_Visit
    \/ processPage_Metadata
    \/ processPage_DryRun
    \/ processPage_UploadMain
    \/ processPage_UploadSection
    \/ processPage_Return
    \/ SeedContent_NextPage

SpecPage == InitPage /\ [][NextPage]_vars

\* the rows of the table that carry title t
RowsWithTitle(t) == {i \in 1..Len(metaRows) : metaRows[i].title = t}

\* C11: the metadata table never holds two rows with the same title, and
\* once a crawl of a page has written its metadata, the single row of that
\* title carries that crawl's content hash and the status "completed".
C11_UpsertByTitle ==
    \A t \in PageTitles :
        /\ Cardinality(RowsWithTitle(t)) <= 1
        /\ written[t] # "none" =>
              \E i \in RowsWithTitle(t) :
                  /\ metaRows[i].hash = written[t]
                  /\ metaRows[i].status = "completed"

\* a page crawled again with a different hash after its row was already
\* written: the row was updated in place
C11_Witness ==
    /\ ppc = "metadata done"
    /\ crawls >= 1
    /\ metaWrites >= 2
    /\ written[pTitle] = "h2"
    /\ pHash = "h2"
    /\ Cardinality(RowsWithTitle(pTitle)) = 1
    /\ \E i \in 1..Len(metaRows) : metaRows[i] = Row(pTitle, "h2", "completed")
    /\ Len(metaRows) = 1

\* C12: in dry-run mode no request reaches the provider, no metadata write
\* is made, and every page whose content was extracted returns nil.
C12_DryRunTouchesNothing ==
    dryRun =>
        /\ providerLog = <<>>
        /\ metaWrites = 0
        /\ \A t \in PageTitles : written[t] = "none"
        /\ (ppc = "returned" /\ pVisit = "ok") => pResult = "nil"

\* a dry run that extracted a page with sections and returned, after an earlier page
C12_Witness ==
    /\ dryRun
    /\ crawls >= 1
    /\ ppc = "returned"
    /\ pVisit = "ok"
    /\ pSections = MaxSections
    /\ pResult = "nil"

\* the loop of SeedContent has gone on to a page after its i-th page
PageFollows(i) == i < Len(pRun) \/ ppc \notin {"idle", "off"}

\* C24: between every two consecutively processed pages the 500ms delay is
\* inserted, however the processing of the earlier page ended.
C24_DelayBetweenPages ==
    \A i \in 1..Len(pRun) : PageFollows(i) => pRun[i].slept

\* the page's row in the content_metadata table is the one this crawl wrote
RowWritten ==
    \E i \in 1..Len(metaRows) : metaRows[i] = Row(pTitle, pHash, "completed")

\* the provider has received a request for the page being processed
UploadAttempted == Len(providerLog) > pLogAtStart

\* C28: without --dry-run the metadata upsert of a page comes after its
\* successful extraction and before its upload, and is never undone: a page
\* whose fetch fails or yields no content leaves the table unchanged and
\* sends nothing; an upload is only attempted after the upsert was; a row
\* written stays "completed" with the new hash even when the main upload
\* then fails and the page is listed in the run's errors; and a failed
\* metadata write does not keep the upload from being attempted.
C28_MetadataBeforeUpload ==
    (~dryRun /\ ppc # "off") =>
        /\ pMeta = "none" => (metaRows = pRowsAtStart /\ ~UploadAttempted)
        /\ (ppc = "returned" /\ pVisit # "ok") => pMeta = "none"
        /\ UploadAttempted => pMeta \in {"written", "failed"}
        /\ pMeta = "written" => RowWritten
        /\ (pMeta = "failed" /\ ppc \in {"sections", "returned"}) => UploadAttempted
        /\ (ppc = "idle" /\ crawls > 0 /\ pResult = "failed to upload main content") =>
              /\ pRun[Len(pRun)].title = pTitle
              /\ pRun[Len(pRun)].err = pResult
              /\ UploadAttempted

\* a page whose row was written and whose main upload then failed, after
\* the loop has put it on the error list
C28_Witness ==
    /\ ~dryRun
    /\ ppc = "idle"
    /\ crawls > 0
    /\ pMeta = "written"
    /\ pResult = "failed to upload main content"
    /\ pRun[Len(pRun)].err = "failed to upload main content"
    /\ RowWritten
    /\ pHash = "h2"
    /\ UploadAttempted

\* ======================================================================
\* the backoff delays of retryOperation / AddContextWithRetry
\* ======================================================================

MaxExponent == 8

\* BaseDelay * 1.5^k for k = 0..3, in milliseconds
GrowthByHalf == <<2000, 3000, 4500, 6750>>

\* C20: the wait after failed attempt k is min(BaseDelay * 1.5^k, MaxDelay):
\* the delays of one retry-wrapped operation are 2 s, 3 s, 4.5 s, 6.75 s in
\* that order, non-decreasing and never above MaxDelay; and the delay
\* function itself is non-decreasing in k and capped at MaxDelay (it does
\* not depend on the state, and is examined before the first request).
C20_BackoffDelays ==
    /\ Len(delays) <= MaxRetries
    /\ \A i \in 1..Len(delays) :
        /\ delays[i] = GrowthByHalf[i]
        /\ delays[i] <= MaxDelay
        /\ i > 1 => delays[i - 1] <= delays[i]
    /\ calls = 0 =>
        \A k \in 0..MaxExponent :
            /\ Delay(k) <= MaxDelay
            /\ Delay(k) <= Delay(k + 1)
            /\ Delay(k) = MaxDelay \/ 2 * Delay(k + 1) = 3 * Delay(k)
                                   \/ Delay(k + 1) = MaxDelay

\* an operation that waited all four backoff delays
C20_Witness ==
    /\ kind = "search"
    /\ Len(delays) = MaxRetries
    /\ delays[MaxRetries] = 6750
    /\ Delay(MaxRetries + 1) = MaxDelay

\* ======================================================================
\* Client.makeRequest and the AddContext / SearchContext / DeleteContext
\* wrappers (internal/alchemyst client)
\* ======================================================================

MaxResultLen == 2

Endpoints == {"/add", "/search", "/delete"}
Statuses == {199, 200, 201, 202, 204, 299, 300, 301, 400, 404, 429, 500, 503}
BodyKinds == {"empty", "json", "truncated", "html"}

RECURSIVE SeqsUpTo(_, _)
\* the sequences over S of length at most n
SeqsUpTo(S, n) ==
    IF n = 0 THEN {<<>>}
    ELSE LET shorter == SeqsUpTo(S, n - 1)
         IN shorter \cup {Append(q, x) : q \in {p \in shorter : Len(p) = n - 1}, x \in S}

ResultLists == SeqsUpTo({"r1", "r2"}, MaxResultLen)

\* the server's encoding of a search response
Marshal(results) == <<"{">> \o results \o <<"}">>

BodyOf(bodyKind, results) ==
    CASE bodyKind = "empty" -> <<>>
      [] bodyKind = "json" -> Marshal(results)
      [] bodyKind = "truncated" -> <<"{">> \o results
      [] bodyKind = "html" -> <<"<html>">>

\* json.Unmarshal succeeds on a complete object only
UnmarshalOk(body) ==
    /\ Len(body) >= 2
    /\ body[1] = "{"
    /\ body[Len(body)] = "}"
    /\ \A i \in 2..(Len(body) - 1) : body[i] \notin {"{", "}"}

\* the results json.Unmarshal stores in the result
Unmarshal(body) == SubSeq(body, 2, Len(body) - 1)

StatusOkOnly200(st) == st = 200

\* the complement of resp.StatusCode < 200 || resp.StatusCode >= 300
StatusOk(st) == ~(st < 200 \/ st >= 300)

\* fmt.Errorf("API request failed with status %d: %s", resp.StatusCode, string(responseBody))
StatusError(st, body) == <<"API request failed with status ", ToString(st), ": ">> \o body

RequestFailed == <<"request failed: ", "transport error">>
ReadFailed == <<"failed to read response: ", "unexpected EOF">>
UnmarshalFailed == <<"failed to unmarshal response: ", "syntax error">>
ClientNil == <<>>

\* the wrappers pass a result to decode into for /search only
WantsResult(endpoint) == endpoint = "/search"

\* strings.Contains on the message tokens
Contains(msg, piece) == \E i \in 1..Len(msg) : msg[i] = piece

InitClient ==
    /\ cpc = "start"
    /\ cEndpoint \in Endpoints
    /\ cTransport \in BOOLEAN
    /\ cStatus \in Statuses
    /\ cReadOk \in BOOLEAN
    /\ cServerResults \in ResultLists
    /\ \E bodyKind \in BodyKinds : cBody = BodyOf(bodyKind, cServerResults)
    /\ cErr = ClientNil
    /\ cResults = <<>>
    /\ UploadIdle
    /\ SeedIdle
    /\ PageIdle
    /\ QueryIdle
    /\ SearchIdle
    /\ HandlerIdle
    /\ RunIdle
    /\ PopularIdle
    /\ LimiterIdle
    /\ DeadlineIdle
    /\ CleanIdle

\* marshal the payload, build the request, httpClient.Do
makeRequest_Do ==
    /\ cpc = "start"
    /\ IF cTransport
         THEN /\ cpc' = "read"
              /\ UNCHANGED cErr
         ELSE /\ cpc' = "returned"
              /\ cErr' = RequestFailed
    /\ UNCHANGED <<cEndpoint, cTransport, cStatus, cReadOk, cServerResults, cBody, cResults>>
    /\ UNCHANGED notClientVars

\* io.ReadAll(resp.Body)
makeRequest_Read ==
    /\ cpc = "read"
    /\ IF cReadOk
         THEN /\ cpc' = "status"
              /\ UNCHANGED cErr
         ELSE /\ cpc' = "returned"
              /\ cErr' = ReadFailed
    /\ UNCHANGED <<cEndpoint, cTransport, cStatus, cReadOk, cServerResults, cBody, cResults>>
    /\ UNCHANGED notClientVars

\* the status check
makeRequest_Status ==
    /\ cpc = "status"
    /\ IF StatusOk(cStatus)
         THEN /\ cpc' = "decode"
              /\ UNCHANGED cErr
         ELSE /\ cpc' = "returned"
              /\ cErr' = StatusError(cStatus, cBody)
    /\ UNCHANGED <<cEndpoint, cTransport, cStatus, cReadOk, cServerResults, cBody, cResults>>
    /\ UNCHANGED notClientVars

\* if result != nil && len(responseBody) > 0 { json.Unmarshal }, then return
makeRequest_Decode ==
    /\ cpc = "decode"
    /\ cpc' = "returned"
    /\ IF WantsResult(cEndpoint) /\ Len(cBody) > 0
         THEN IF UnmarshalOk(cBody)
                THEN /\ cResults' = Unmarshal(cBody)
                     /\ UNCHANGED cErr
                ELSE /\ cErr' = UnmarshalFailed
                     /\ UNCHANGED cResults
         ELSE UNCHANGED <<cErr, cResults>>
    /\ UNCHANGED <<cEndpoint, cTransport, cStatus, cReadOk, cServerResults, cBody>>
    /\ UNCHANGED notClientVars

NextClient ==
    \/ makeRequest_Do
    \/ makeRequest_Read
    \/ makeRequest_Status
    \/ makeRequest_Decode

SpecClient == InitClient /\ [][NextClient]_vars

\* the call returned after a response with a status arrived
GotResponse == cpc = "returned" /\ cTransport

\* C19 as stated: every response with a status outside 200..299 gives an
\* error naming the status, every 2xx response gives no error, and a search
\* returns the results of a 2xx body unchanged.
C19_StatusDecidesError ==
    GotResponse =>
        /\ ~(cStatus \in 200..299) => cErr # ClientNil /\ Contains(cErr, ToString(cStatus))
        /\ cStatus \in 200..299 => cErr = ClientNil
        /\ (cStatus \in 200..299 /\ cEndpoint = "/search" /\ cBody = Marshal(cServerResults))
              => cResults = cServerResults

\* C19: once the body of the response was read, a status outside 200..299
\* gives an error naming the status; a 2xx status gives no error when no
\* result is decoded (add, delete, or an empty body) or the body decodes, and
\* a decode error otherwise; a search returns the results of a well-formed
\* 2xx body unchanged.
C19_StatusDecidesErrorAfterRead ==
    (GotResponse /\ cReadOk) =>
        /\ ~(cStatus \in 200..299) => cErr # ClientNil /\ Contains(cErr, ToString(cStatus))
        /\ (cStatus \in 200..299 /\ (cEndpoint # "/search" \/ cBody = <<>>
                                       \/ cBody = Marshal(cServerResults)))
              => cErr = ClientNil
        /\ (cStatus \in 200..299 /\ cEndpoint = "/search" /\ cBody # <<>>
                                  /\ cBody # Marshal(cServerResults))
              => cErr = UnmarshalFailed
        /\ (cStatus \in 200..299 /\ cEndpoint = "/search" /\ cBody = Marshal(cServerResults))
              => cResults = cServerResults

\* a search answered 202 with a body of two results, decoded and returned
C19_Witness ==
    /\ GotResponse
    /\ cReadOk
    /\ cEndpoint = "/search"
    /\ cStatus = 202
    /\ cServerResults = <<"r1", "r2">>
    /\ cBody = Marshal(cServerResults)
    /\ cResults = <<"r1", "r2">>
    /\ cErr = ClientNil

\* ======================================================================
\* SearchService.preprocessQuery and isTechnicalTerm (internal/services/search.go)
\* Strings are sequences of one-character strings.
\* ======================================================================

MaxWords == 3

LowerCase == <<"a", "b", "c", "d", "e", "f", "g", "h", "i", "j", "k", "l", "m", "n", "o", "p", "q", "r", "s", "t", "u", "v", "w", "x", "y", "z">>
UpperCase == <<"A", "B", "C", "D", "E", "F", "G", "H", "I", "J", "K", "L", "M", "N", "O", "P", "Q", "R", "S", "T", "U", "V", "W", "X", "Y", "Z">>
Digits == {"0", "1", "2", "3", "4", "5", "6", "7", "8", "9"}
Range(f) == {f[i] : i \in DOMAIN f}

\* strings.ToLower
ToLower(str) ==
    [i \in 1..Len(str) |->
        IF str[i] \in Range(UpperCase)
          THEN LowerCase[CHOOSE k \in 1..Len(UpperCase) : UpperCase[k] = str[i]]
          ELSE str[i]]

RECURSIVE Fields(_)
\* strings.Fields: the maximal runs of non-space characters
Fields(str) ==
    IF str = <<>> THEN <<>>
    ELSE IF Head(str) = " " THEN Fields(Tail(str))
    ELSE LET stop == IF \E i \in 1..Len(str) : str[i] = " "
                       THEN (CHOOSE i \in 1..Len(str) :
                                str[i] = " " /\ \A j \in 1..(i - 1) : str[j] # " ") - 1
                       ELSE Len(str)
         IN <<SubSeq(str, 1, stop)>> \o Fields(SubSeq(str, stop + 1, Len(str)))

RECURSIVE Join(_)
\* strings.Join(words, " ")
Join(words) ==
    IF words = <<>> THEN <<>>
    ELSE IF Len(words) = 1 THEN words[1]
    ELSE words[1] \o <<" ">> \o Join(Tail(words))

\* the characters the regexp [^\w\-\.\/\:] leaves in place
KeptChar(c) ==
    c \in Range(LowerCase) \cup Range(UpperCase) \cup Digits \cup {"_", "-", ".", "/", ":"}

Cleaned(word) == SelectSeq(word, KeptChar)

noiseWords ==
    { <<"p", "l", "e", "a", "s", "e">>, <<"h", "e", "l", "p">>, <<"h", "o", "w">>, <<"d", "o">>,
      <<"i">>, <<"c", "a", "n">>, <<"y", "o", "u">>, <<"m", "e">>,
      <<"m", "y">>, <<"t", "h", "e">>, <<"a">>, <<"a", "n">>,
      <<"i", "s">>, <<"a", "r", "e">>, <<"w", "a", "s">>, <<"w", "e", "r", "e">>,
      <<"b", "e">>, <<"b", "e", "e", "n">>, <<"b", "e", "i", "n", "g">>, <<"h", "a", "v", "e">>,
      <<"h", "a", "s">>, <<"h", "a", "d">>, <<"w", "i", "l", "l">>, <<"w", "o", "u", "l", "d">>,
      <<"c", "o", "u", "l", "d">>, <<"s", "h", "o", "u", "l", "d">>, <<"m", "a", "y">>, <<"m", "i", "g", "h", "t">>,
      <<"m", "u", "s", "t">>, <<"s", "h", "a", "l", "l">>, <<"d", "o", "e", "s">>, <<"d", "i", "d">>,
      <<"d", "o", "n", "'", "t">>, <<"d", "o", "e", "s", "n", "'", "t">>, <<"w", "o", "n", "'", "t">>, <<"w", "o", "u", "l", "d", "n", "'", "t">>,
      <<"c", "o", "u", "l", "d", "n", "'", "t">>, <<"s", "h", "o", "u", "l", "d", "n", "'", "t">>, <<"m", "u", "s", "t", "n", "'", "t">>, <<"s", "h", "a", "n", "'", "t">>,
      <<"d", "i", "d", "n", "'", "t">> }

technicalPatterns ==
    { <<"p", "a", "c", "m", "a", "n">>, <<"s", "y", "s", "t", "e", "m", "d">>, <<"g", "r", "u", "b">>, <<"x", "o", "r", "g">>,
      <<"w", "a", "y", "l", "a", "n", "d">>, <<"n", "e", "t", "w", "o", "r", "k", "m", "a", "n", "a", "g", "e", "r">>, <<"b", "l", "u", "e", "t", "o", "o", "t", "h">>, <<"a", "u", "d", "i", "o">>,
      <<"p", "u", "l", "s", "e", "a", "u", "d", "i", "o">>, <<"a", "l", "s", "a">>, <<"n", "v", "i", "d", "i", "a">>, <<"a", "m", "d">>,
      <<"k", "e", "r", "n", "e", "l">>, <<"m", "o", "d", "u", "l", "e">>, <<"s", "e", "r", "v", "i", "c", "e">>, <<"u", "n", "i", "t">>,
      <<"m", "o", "u", "n", "t">>, <<"f", "s", "t", "a", "b">>, <<"a", "u", "r">>, <<"m", "a", "k", "e", "p", "k", "g">>,
      <<"p", "k", "g", "b", "u", "i", "l", "d">>, <<"d", "e", "p", "e", "n", "d", "e", "n", "c", "y">>, <<"c", "o", "n", "f", "l", "i", "c", "t">> }

\* strings.Contains
HasSubstring(word, pattern) ==
    \E i \in 1..(Len(word) - Len(pattern) + 1) :
        SubSeq(word, i, i + Len(pattern) - 1) = pattern

\* the regexp ^[a-z]+(-[a-z]+)*$
CommandLike(word) ==
    /\ word # <<>>
    /\ \A i \in 1..Len(word) : word[i] \in Range(LowerCase) \cup {"-"}
    /\ word[1] # "-"
    /\ word[Len(word)] # "-"
    /\ \A i \in 1..(Len(word) - 1) : ~(word[i] = "-" /\ word[i + 1] = "-")

isTechnicalTerm(word) ==
    \/ \E pattern \in technicalPatterns : HasSubstring(word, pattern)
    \/ \E i \in 1..Len(word) : word[i] \in Digits
    \/ CommandLike(word) /\ Len(word) > 2

RECURSIVE Filtered(_)
\* the loop over words: drop what cleans to nothing, and the noise words
\* that are not technical terms
Filtered(words) ==
    IF words = <<>> THEN <<>>
    ELSE LET cleaned == Cleaned(Head(words))
             rest == Filtered(Tail(words))
         IN IF cleaned = <<>> THEN rest
            ELSE IF cleaned \notin noiseWords \/ isTechnicalTerm(cleaned)
                   THEN <<cleaned>> \o rest
                   ELSE rest

preprocessQuery(query) == Join(Filtered(Fields(ToLower(query))))

\* the words raw queries are made of
Vocabulary ==
    { <<"I">>, <<"d", "o">>, <<"a">>, <<"i", "s">>, <<"f", "i", "x">>, <<"p", "a", "c", "m", "a", "n", ":">>, <<"4", "0", "4">>, <<"?", "?">> }

RawQueries == {Join(ws) : ws \in SeqsUpTo(Vocabulary, MaxWords)}

InitQuery ==
    /\ qpc = "start"
    /\ qRaw \in RawQueries
    /\ qOut = <<>>
    /\ UploadIdle
    /\ SeedIdle
    /\ PageIdle
    /\ ClientIdle
    /\ SearchIdle
    /\ HandlerIdle
    /\ RunIdle
    /\ PopularIdle
    /\ LimiterIdle
    /\ DeadlineIdle
    /\ CleanIdle

preprocessQuery_Apply ==
    /\ qpc = "start"
    /\ qOut' = preprocessQuery(qRaw)
    /\ qpc' = "done"
    /\ UNCHANGED qRaw
    /\ UNCHANGED notQueryVars

NextQuery == preprocessQuery_Apply

SpecQuery == InitQuery /\ [][NextQuery]_vars

\* C13: when the noise-stripped form of the raw query is shorter than one
\* third of the raw query's length, preprocessing returns the raw query.
C13_SafetyValve ==
    (qpc = "done" /\ 3 * Len(Join(Filtered(Fields(ToLower(qRaw))))) < Len(qRaw))
        => qOut = qRaw

\* ======================================================================
\* SearchService.SearchForSolution, convertAlchemystResults,
\* calculateRelevanceScore and determineRelevance (internal/services/search.go)
\* ======================================================================

MaxResults == 12
MaxErrTerms == 3
MaxSolTerms == 3

\* if len(filteredResults) > 10 { filteredResults = filteredResults[:10] }
ResultLimit == 10

\* ---- float64 ----
\* A float64 x is the record [t, r] with x = (t * 2^56 + r) / (10 * 2^56):
\* t tenths and r units of 1 / (10 * 2^56). A float64 has 53 significant
\* bits, so between 2^k and 2^(k+1) the representable values are the
\* multiples of 2^(k-52), which is 10 * 2^(k+4) units.
F(t, r) == [t |-> t, r |-> r]

Less(x, y) == x.t < y.t \/ (x.t = y.t /\ x.r < y.r)

\* the spacing in units of the float64 values around x, for 1/16 <= x < 2
Spacing(x) ==
    IF x.t <= 1 THEN 10
    ELSE IF x.t = 2 THEN 20
    ELSE IF x.t <= 4 \/ (x.t = 5 /\ x.r < 0) THEN 40
    ELSE IF x.t <= 9 \/ (x.t = 10 /\ x.r < 0) THEN 80
    ELSE 160

RECURSIVE PowMod(_, _, _)
PowMod(b, e, m) == IF e = 0 THEN 1 % m ELSE (b * PowMod(b, e - 1, m)) % m

\* x in units, modulo m (2^56 = 256^7)
Residue(x, m) == (x.t * PowMod(256, 7, m) + x.r) % m

\* round to the nearest float64, ties to the even multiple
Round(x) ==
    LET u == Spacing(x)
        m == Residue(x, u)
        down == F(x.t, x.r - m)
        up == F(x.t, x.r + (u - m))
    IN  IF m = 0 THEN x
        ELSE IF 2 * m < u THEN down
        ELSE IF 2 * m > u THEN up
        ELSE IF Residue(down, 2 * u) = 0 THEN down ELSE up

\* the float64 of the decimal literal tenths/10 (0.1, 0.2, 0.5, 0.6, 0.8, 1.0)
Float64(tenths) == Round(F(tenths, 0))

\* score += y
Add(x, y) == Round(F(x.t + y.t, x.r + y.r))

\* ---- scoring ----
errorTerms ==
    << "error", "failed", "failure", "problem", "issue", "trouble",
       "cannot", "can't", "unable", "not working", "broken",
       "fix", "solve", "solution", "troubleshoot", "debug" >>

solutionTerms ==
    << "install", "configure", "setup", "enable", "disable",
       "restart", "reload", "update", "upgrade", "downgrade",
       "edit", "modify", "change", "add", "remove" >>

commandIndicators == {"sudo", "pacman", "systemctl"}

RECURSIVE Boost(_, _, _)
\* for _, term := range terms { if strings.Contains(contextLower, term) { score += 0.1 } }
\* a content is the set of vocabulary terms it contains
Boost(score, terms, content) ==
    IF terms = <<>> THEN score
    ELSE Boost(IF Head(terms) \in content THEN Add(score, Float64(1)) ELSE score,
               Tail(terms), content)

\* if score > 1.0 { score = 1.0 }
Cap(score) == IF Less(Float64(10), score) THEN Float64(10) ELSE score

\* the boost for command-related content
CommandBoost(score, contextLower) ==
    IF contextLower \cap commandIndicators # {} THEN Add(score, Float64(2)) ELSE score

\* contextData is given as the set of vocabulary terms its lower-cased text contains
calculateRelevanceScore(contextData) ==
    Cap(CommandBoost(Boost(Boost(Float64(5), errorTerms, contextData),
                           solutionTerms, contextData),
                     contextData))

determineRelevance(score) ==
    IF ~Less(score, Float64(8)) THEN "high"
    ELSE IF ~Less(score, Float64(6)) THEN "medium"
    ELSE "low"

convertAlchemystResults(alchemystResults) ==
    [i \in 1..Len(alchemystResults) |->
        [contextID |-> alchemystResults[i].contextID,
         content |-> alchemystResults[i].content,
         score |-> calculateRelevanceScore(alchemystResults[i].content),
         relevance |-> determineRelevance(calculateRelevanceScore(alchemystResults[i].content))]]

\* mutant of Limit: the cap keeps the last results
LimitKeepsLast(results) ==
    IF Len(results) > ResultLimit
      THEN SubSeq(results, Len(results) - ResultLimit + 1, Len(results))
      ELSE results

\* the cap on the number of results
Limit(results) ==
    IF Len(results) > ResultLimit THEN SubSeq(results, 1, ResultLimit) ELSE results

\* ---- inputs ----
\* the content holding the first e error terms, the first s solution terms
\* and, with c = 1, a command
Content(e, s, c) ==
    {errorTerms[k] : k \in 1..e} \cup {solutionTerms[k] : k \in 1..s}
        \cup (IF c = 1 THEN {"sudo"} ELSE {})

PoolSize == (MaxErrTerms + 1) * (MaxSolTerms + 1) * 2

\* the contents, numbered from 0
PoolContent(p) ==
    Content(p % (MaxErrTerms + 1),
            (p \div (MaxErrTerms + 1)) % (MaxSolTerms + 1),
            p \div ((MaxErrTerms + 1) * (MaxSolTerms + 1)))

\* a provider response of n results whose contents run through the pool
ProviderResponse(n, start) ==
    [i \in 1..n |-> [contextID |-> i, content |-> PoolContent((start + i - 1) % PoolSize)]]

CommitQuery ==
    << "p", "a", "c", "m", "a", "n", ":", " ", "e", "r", "r", "o",
       "r", ":", " ", "f", "a", "i", "l", "e", "d", " ", "t", "o",
       " ", "c", "o", "m", "m", "i", "t", " ", "t", "r", "a", "n",
       "s", "a", "c", "t", "i", "o", "n", " ", "(", "c", "o", "n",
       "f", "l", "i", "c", "t", "i", "n", "g", " ", "f", "i", "l",
       "e", "s", ")" >>

SearchQueries == {CommitQuery, <<"I", " ", "d", "o", " ", "a">>}

InitSearch ==
    /\ svpc = "start"
    /\ svQuery \in SearchQueries
    /\ svProcessed = <<>>
    /\ svProviderOk \in BOOLEAN
    /\ \E n \in 0..MaxResults, start \in 0..(PoolSize - 1) :
          svProviderResults = ProviderResponse(n, start)
    /\ svConverted = <<>>
    /\ svReturned = <<>>
    /\ svErr = "none"
    /\ UploadIdle
    /\ SeedIdle
    /\ PageIdle
    /\ ClientIdle
    /\ QueryIdle
    /\ HandlerIdle
    /\ RunIdle
    /\ PopularIdle
    /\ LimiterIdle
    /\ DeadlineIdle
    /\ CleanIdle

SearchForSolution_Preprocess ==
    /\ svpc = "start"
    /\ svProcessed' = preprocessQuery(svQuery)
    /\ svpc' = "search"
    /\ UNCHANGED <<svQuery, svProviderOk, svProviderResults, svConverted, svReturned, svErr>>
    /\ UNCHANGED notSearchVars

\* s.alchemystService.SearchForSolution and the error return
SearchForSolution_Provider ==
    /\ svpc = "search"
    /\ IF svProviderOk
         THEN /\ svpc' = "convert"
              /\ UNCHANGED svErr
         ELSE /\ svpc' = "returned"
              /\ svErr' = "search service unavailable"
    /\ UNCHANGED <<svQuery, svProcessed, svProviderOk, svProviderResults, svConverted, svReturned>>
    /\ UNCHANGED notSearchVars

SearchForSolution_Convert ==
    /\ svpc = "convert"
    /\ svConverted' = convertAlchemystResults(svProviderResults)
    /\ svpc' = "limit"
    /\ UNCHANGED <<svQuery, svProcessed, svProviderOk, svProviderResults, svReturned, svErr>>
    /\ UNCHANGED notSearchVars

\* filtering is skipped; the cap and the return
SearchForSolution_Limit ==
    /\ svpc = "limit"
    /\ svReturned' = Limit(svConverted)
    /\ svErr' = "nil"
    /\ svpc' = "returned"
    /\ UNCHANGED <<svQuery, svProcessed, svProviderOk, svProviderResults, svConverted>>
    /\ UNCHANGED notSearchVars

NextSearch ==
    \/ SearchForSolution_Preprocess
    \/ SearchForSolution_Provider
    \/ SearchForSolution_Convert
    \/ SearchForSolution_Limit

SpecSearch == InitSearch /\ [][NextSearch]_vars

\* the boosting terms a content holds, and whether it holds a command
ErrorCount(content) == Cardinality(content \cap Range(errorTerms))
SolutionCount(content) == Cardinality(content \cap Range(solutionTerms))
CommandCount(content) == IF content \cap commandIndicators # {} THEN 1 ELSE 0

\* C14: the score of every converted result is the float64 of
\* min(1.0, 0.5 + 0.1 * error terms + 0.1 * solution terms + 0.2 if a command
\* is present); one error term, one solution term and no command give 0.7
\* and the label medium.
C14_ScoreFormula ==
    \A i \in 1..Len(svConverted) :
        LET c == svConverted[i].content
            tenths == 5 + ErrorCount(c) + SolutionCount(c) + 2 * CommandCount(c)
        IN  /\ svConverted[i].score = Float64(IF tenths > 10 THEN 10 ELSE tenths)
            /\ (ErrorCount(c) = 1 /\ SolutionCount(c) = 1 /\ CommandCount(c) = 0)
                  => /\ svConverted[i].score = Float64(7)
                     /\ svConverted[i].relevance = "medium"

\* C15: every converted result has 0.5 <= score <= 1.0, a result with five
\* or more boosting terms scores exactly 1.0, and the label is high iff
\* score >= 0.8, medium iff 0.6 <= score < 0.8, low otherwise.
C15_ScoreRangeAndLabel ==
    \A i \in 1..Len(svConverted) :
        LET c == svConverted[i].content
            sc == svConverted[i].score
        IN  /\ ~Less(sc, Float64(5))
            /\ ~Less(Float64(10), sc)
            /\ ErrorCount(c) + SolutionCount(c) >= 5 => sc = Float64(10)
            /\ svConverted[i].relevance = "high" <=> ~Less(sc, Float64(8))
            /\ svConverted[i].relevance = "medium"
                  <=> (~Less(sc, Float64(6)) /\ Less(sc, Float64(8)))
            /\ svConverted[i].relevance = "low" <=> Less(sc, Float64(6))

\* C16: SearchForSolution returns at most 10 results; of more than 10
\* provider results it returns exactly 10, the first 10 converted results in
\* the provider's order.
C16_AtMostTenInProviderOrder ==
    (svpc = "returned" /\ svErr = "nil") =>
        /\ Len(svReturned) <= 10
        /\ Len(svProviderResults) <= 10 => Len(svReturned) = Len(svProviderResults)
        /\ Len(svProviderResults) > 10 => Len(svReturned) = 10
        /\ \A i \in 1..Len(svReturned) :
              /\ svReturned[i].contextID = svProviderResults[i].contextID
              /\ svReturned[i] = svConverted[i]

\* the commit-transaction query answered with 12 results, cut to the first 10
C16_Witness ==
    /\ svpc = "returned"
    /\ svErr = "nil"
    /\ svQuery = CommitQuery
    /\ Len(svProviderResults) = 12
    /\ Len(svReturned) = 10
    /\ svReturned[1].contextID = 1
    /\ svReturned[10].contextID = 10

\* ======================================================================
\* SearchHandler.HandleSearch and HandleFeedback (internal/api/handlers/search.go)
\* ======================================================================

\* if len(query) > 2000
MaxQueryBytes == 2000

\* A query is given by its shape: pad spaces around it, chars characters
\* between them, wide of which take two bytes.
Query(pad, chars, wide) == [pad |-> pad, chars |-> chars, wide |-> wide]

Queries ==
    {Query(pad, chars, wide) :
        pad \in {0, 2}, chars \in {0, 1, 1999, 2000, 2001, 2002}, wide \in {0, 1}}
      \ {Query(0, 0, 1), Query(2, 0, 1)}

\* strings.TrimSpace
TrimSpace(q) == Query(0, q.chars, q.wide)

\* len(query): the bytes
ByteLen(q) == q.pad + q.chars + q.wide

\* the characters
CharLen(q) == q.pad + q.chars

TooLongIgnoresLastByte(q) == ByteLen(q) - 1 > MaxQueryBytes

TooLong(q) == ByteLen(q) > MaxQueryBytes

\* ShouldBindJSON with binding:"required" on the query
SearchBindOk(req) == req.wellFormed /\ CharLen(req.query) > 0

FeedbackTypes == {"helpful", "not_helpful", "partially_helpful", "great", ""}

validTypes == {"helpful", "not_helpful", "partially_helpful"}

\* ShouldBindJSON with binding:"required" on query_id and feedback_type
FeedbackBindOk(req) == req.wellFormed /\ req.queryID # 0 /\ req.feedbackType # ""

SearchRequests ==
    [kind : {"search"}, wellFormed : BOOLEAN, query : Queries,
     queryID : {0}, feedbackType : {""}]

FeedbackRequests ==
    [kind : {"feedback"}, wellFormed : BOOLEAN, query : {Query(0, 0, 0)},
     queryID : {0, 1}, feedbackType : FeedbackTypes]

\* cacheRead: the key is there, is not there, or the read fails
Envs ==
    [cacheRead : {"hit", "miss", "error"}, searchOk : BOOLEAN, cacheWriteOk : BOOLEAN,
     live : {<<>>, <<"l1", "l2">>}, cached : {<<"c1">>}, createOk : BOOLEAN]

CacheUsableUnlessMiss(outcome) == outcome # "miss"

\* GetCachedSearchResults returned err == nil
CacheUsable(outcome) == outcome = "hit"

AfterCacheGetRewrites(usable) == IF usable THEN "cacheSet" ELSE "search"

\* the search and the cache write are both in the else branch of the cache lookup
AfterCacheGet(usable) == IF usable THEN "track" ELSE "search"

InitHandler ==
    /\ hpc = "start"
    /\ hReq \in SearchRequests \cup FeedbackRequests
    /\ hEnv \in Envs
    /\ hReq.kind = "feedback" =>
          hEnv.cacheRead = "miss" /\ hEnv.searchOk /\ hEnv.cacheWriteOk /\ hEnv.live = <<>>
    /\ hReq.kind = "search" => hEnv.createOk
    /\ hQuery = Query(0, 0, 0)
    /\ hResults = <<>>
    /\ hCacheReads = 0
    /\ hCacheWrites = 0
    /\ hProviderCalls = 0
    /\ hPending = {}
    /\ hAnalytics = <<>>
    /\ hStatus = 0
    /\ hBody = <<>>
    /\ hResponses = 0
    /\ hFeedbackRows = <<>>
    /\ UploadIdle
    /\ SeedIdle
    /\ PageIdle
    /\ ClientIdle
    /\ QueryIdle
    /\ SearchIdle
    /\ RunIdle
    /\ PopularIdle
    /\ LimiterIdle
    /\ DeadlineIdle
    /\ CleanIdle

\* bind, trim, and the two checks on the query
HandleSearch_Validate ==
    /\ hpc = "start"
    /\ hReq.kind = "search"
    /\ IF ~SearchBindOk(hReq)
         THEN /\ hStatus' = 400
              /\ hResponses' = hResponses + 1
              /\ hpc' = "returned"
              /\ UNCHANGED hQuery
         ELSE /\ hQuery' = TrimSpace(hReq.query)
              /\ IF CharLen(TrimSpace(hReq.query)) = 0 \/ TooLong(TrimSpace(hReq.query))
                   THEN /\ hStatus' = 400
                        /\ hResponses' = hResponses + 1
                        /\ hpc' = "returned"
                   ELSE /\ hpc' = "cache"
                        /\ UNCHANGED <<hStatus, hResponses>>
    /\ UNCHANGED <<hReq, hEnv, hResults, hCacheReads, hCacheWrites, hProviderCalls,
                   hPending, hAnalytics, hBody, hFeedbackRows>>
    /\ UNCHANGED notHandlerVars

\* h.cache.GetCachedSearchResults
HandleSearch_CacheGet ==
    /\ hpc = "cache"
    /\ hCacheReads' = hCacheReads + 1
    /\ IF CacheUsable(hEnv.cacheRead)
         THEN hResults' = (IF hEnv.cacheRead = "hit" THEN hEnv.cached ELSE <<>>)
         ELSE UNCHANGED hResults
    /\ hpc' = AfterCacheGet(CacheUsable(hEnv.cacheRead))
    /\ UNCHANGED <<hReq, hEnv, hQuery, hCacheWrites, hProviderCalls, hPending,
                   hAnalytics, hStatus, hBody, hResponses, hFeedbackRows>>
    /\ UNCHANGED notHandlerVars

\* h.searchService.SearchForSolution; on failure trackSearchQuery and the 500
HandleSearch_Search ==
    /\ hpc = "search"
    /\ hProviderCalls' = hProviderCalls + 1
    /\ IF hEnv.searchOk
         THEN /\ hResults' = hEnv.live
              /\ hpc' = "cacheSet"
              /\ UNCHANGED <<hAnalytics, hStatus, hResponses>>
         ELSE /\ hAnalytics' = Append(hAnalytics, "track")
              /\ hStatus' = 500
              /\ hResponses' = hResponses + 1
              /\ hpc' = "returned"
              /\ UNCHANGED hResults
    /\ UNCHANGED <<hReq, hEnv, hQuery, hCacheReads, hCacheWrites, hPending,
                   hBody, hFeedbackRows>>
    /\ UNCHANGED notHandlerVars

\* h.cache.CacheSearchResults; its error is only logged
HandleSearch_CacheSet ==
    /\ hpc = "cacheSet"
    /\ hCacheWrites' = hCacheWrites + 1
    /\ hpc' = "track"
    /\ UNCHANGED <<hReq, hEnv, hQuery, hResults, hCacheReads, hProviderCalls, hPending,
                   hAnalytics, hStatus, hBody, hResponses, hFeedbackRows>>
    /\ UNCHANGED notHandlerVars

\* go h.trackSearchQuery(...); go h.updatePopularQueries(...)
HandleSearch_Track ==
    /\ hpc = "track"
    /\ hPending' = {"track", "popular"}
    /\ hpc' = "respond"
    /\ UNCHANGED <<hReq, hEnv, hQuery, hResults, hCacheReads, hCacheWrites,
                   hProviderCalls, hAnalytics, hStatus, hBody, hResponses, hFeedbackRows>>
    /\ UNCHANGED notHandlerVars

\* utils.SuccessResponse(c, http.StatusOK, ...)
HandleSearch_Respond ==
    /\ hpc = "respond"
    /\ hStatus' = 200
    /\ hBody' = hResults
    /\ hResponses' = hResponses + 1
    /\ hpc' = "returned"
    /\ UNCHANGED <<hReq, hEnv, hQuery, hResults, hCacheReads, hCacheWrites,
                   hProviderCalls, hPending, hAnalytics, hFeedbackRows>>
    /\ UNCHANGED notHandlerVars

\* one of the analytics goroutines runs: trackSearchQuery or updatePopularQueries
Analytics_Run ==
    /\ \E task \in hPending :
          /\ hPending' = hPending \ {task}
          /\ hAnalytics' = Append(hAnalytics, task)
    /\ UNCHANGED <<hpc, hReq, hEnv, hQuery, hResults, hCacheReads, hCacheWrites,
                   hProviderCalls, hStatus, hBody, hResponses, hFeedbackRows>>
    /\ UNCHANGED notHandlerVars

HandleFeedback ==
    /\ hpc = "start"
    /\ hReq.kind = "feedback"
    /\ hpc' = "returned"
    /\ hResponses' = hResponses + 1
    /\ IF ~FeedbackBindOk(hReq) \/ hReq.feedbackType \notin validTypes
         THEN /\ hStatus' = 400
              /\ UNCHANGED hFeedbackRows
         ELSE IF hEnv.createOk
                THEN /\ hFeedbackRows' = Append(hFeedbackRows, hReq.feedbackType)
                     /\ hStatus' = 201
                ELSE /\ hStatus' = 500
                     /\ UNCHANGED hFeedbackRows
    /\ UNCHANGED <<hReq, hEnv, hQuery, hResults, hCacheReads, hCacheWrites,
                   hProviderCalls, hPending, hAnalytics, hBody>>
    /\ UNCHANGED notHandlerVars

NextHandler ==
    \/ HandleSearch_Validate
    \/ HandleSearch_CacheGet
    \/ HandleSearch_Search
    \/ HandleSearch_CacheSet
    \/ HandleSearch_Track
    \/ HandleSearch_Respond
    \/ Analytics_Run
    \/ HandleFeedback

SpecHandler == InitHandler /\ [][NextHandler]_vars

\* C17: a search whose cache read fails runs the live search and answers as
\* one whose cache read misses: 200 with the live results when the live
\* search succeeds, whether or not the cache write then fails, and 500 when
\* the live search fails.
C17_CacheErrorsNotFatal ==
    (hpc = "returned" /\ hCacheReads = 1 /\ hEnv.cacheRead \in {"miss", "error"}) =>
        /\ hProviderCalls = 1
        /\ hEnv.searchOk => /\ hStatus = 200
                            /\ hBody = hEnv.live
                            /\ hCacheWrites = 1
        /\ ~hEnv.searchOk => hStatus = 500

\* a failed cache read and a failed cache write around a successful live search
C17_Witness ==
    /\ hpc = "returned"
    /\ hEnv.cacheRead = "error"
    /\ hEnv.searchOk
    /\ ~hEnv.cacheWriteOk
    /\ hCacheWrites = 1
    /\ hStatus = 200
    /\ hBody = <<"l1", "l2">>

\* C18: a search whose trimmed query is empty or longer than 2000 characters
\* gets one 400 response and causes no cache lookup, provider call or
\* analytics write; a feedback whose type is not helpful, not_helpful or
\* partially_helpful gets a 400 response and creates no record.
C18_RejectedAtTheBoundary ==
    /\ (hReq.kind = "search"
          /\ (TrimSpace(hReq.query).chars = 0 \/ TrimSpace(hReq.query).chars > 2000)) =>
            /\ hCacheReads = 0 /\ hCacheWrites = 0 /\ hProviderCalls = 0
            /\ hPending = {} /\ hAnalytics = <<>>
            /\ hResponses <= 1
            /\ hpc \in {"start", "returned"}
            /\ hpc = "returned" => hStatus = 400 /\ hResponses = 1
    /\ (hReq.kind = "feedback"
          /\ hReq.feedbackType \notin {"helpful", "not_helpful", "partially_helpful"}) =>
            /\ hFeedbackRows = <<>>
            /\ hpc = "returned" => hStatus = 400

\* a well-formed search of 2001 characters, rejected
C18_Witness ==
    /\ hpc = "returned"
    /\ hReq.kind = "search"
    /\ hReq.wellFormed
    /\ hReq.query = Query(0, 2001, 0)
    /\ hStatus = 400
    /\ hCacheReads = 0

\* the analytics tasks HandleSearch has started or run
Launched == hPending \cup Range(hAnalytics)

\* C30: a search answered from the cache makes no provider call and no
\* cache write, returns 200 with the cached results, and still launches
\* the query-tracking and the popularity update; a search whose live
\* search fails writes nothing to the cache and makes no popularity update.
C30_CacheHitPath ==
    hReq.kind = "search" =>
        /\ (hEnv.cacheRead = "hit" /\ hCacheReads > 0) =>
              /\ hProviderCalls = 0
              /\ hCacheWrites = 0
              /\ hCacheReads = 1
        /\ (hEnv.cacheRead = "hit" /\ hCacheReads > 0 /\ hpc = "returned") =>
              /\ hStatus = 200
              /\ hBody = hEnv.cached
              /\ Launched = {"track", "popular"}
        /\ (hpc = "returned" /\ hStatus = 500) =>
              /\ hCacheWrites = 0
              /\ "popular" \notin Launched

\* a search served from the cache whose two analytics tasks have run
C30_Witness ==
    /\ hpc = "returned"
    /\ hReq.kind = "search"
    /\ hEnv.cacheRead = "hit"
    /\ hStatus = 200
    /\ hBody = <<"c1">>
    /\ hProviderCalls = 0
    /\ hCacheWrites = 0
    /\ hPending = {}
    /\ Range(hAnalytics) = {"track", "popular"}

\* ======================================================================
\* the uploads of a crawl run without --dry-run: processPage from the main
\* content upload to its return, for the pages of the run in turn
\* (cmd/seed/main.go), with the source keys AddWikiContent sends
\* ======================================================================

MaxRunPages == 2

\* the headlines extractSections may find on a page; it takes every h2, h3
\* and h4 headline with enough text below it, and does not compare headlines
SectionTitles == {"Installation", "Usage"}

\* the lists of at most max headlines
SectionLists(max) == UNION {[1..n -> SectionTitles] : n \in 0..max}

\* ArchWikiPages lists every title once
DistinctTitles(ps) ==
    \A i \in 1..Len(ps), j \in 1..Len(ps) : i # j => ps[i].title # ps[j].title

\* the runs of at most max pages
Runs(max) ==
    {ps \in UNION {[1..k -> [title : PageTitles, sections : SectionLists(MaxSections)]] :
                        k \in 1..max} : DistinctTitles(ps)}

InitRun ==
    /\ rPages \in Runs(MaxRunPages)
    /\ rpc = "main"
    /\ rPage = 1
    /\ rSec = 1
    /\ rLog = <<>>
    /\ rBase = 0
    /\ rUploads = <<>>
    /\ rResults = <<>>
    /\ UploadIdle
    /\ SeedIdle
    /\ PageIdle
    /\ ClientIdle
    /\ QueryIdle
    /\ SearchIdle
    /\ HandlerIdle
    /\ PopularIdle
    /\ LimiterIdle
    /\ DeadlineIdle
    /\ CleanIdle

\* the title uploadToAlchemyst is given for part i of page p (0: the main content)
PartTitle(p, i) ==
    IF i = 0 THEN p.title ELSE SectionTitle(p.title, p.sections[i])

\* uploadToAlchemyst for the main content; its failure ends processPage
Run_UploadMain ==
    /\ rpc = "main"
    /\ rLog' = rLog \o UploadRequests(PartTitle(rPages[rPage], 0))
    /\ \E ok \in BOOLEAN :
        /\ rUploads' = Append(rUploads, [part |-> 0, ok |-> ok])
        /\ IF ok
             THEN /\ rpc' = "sections"
                  /\ UNCHANGED rResults
             ELSE /\ rpc' = "returned"
                  /\ rResults' = Append(rResults, "failed to upload main content")
    /\ UNCHANGED <<rPages, rPage, rSec, rBase>>
    /\ UNCHANGED notRunVars

\* one iteration of the section loop
Run_UploadSection ==
    /\ rpc = "sections"
    /\ rSec <= Len(rPages[rPage].sections)
    /\ rLog' = rLog \o UploadRequests(PartTitle(rPages[rPage], rSec))
    /\ \E ok \in BOOLEAN :
        /\ rUploads' = Append(rUploads, [part |-> rSec, ok |-> ok])
        /\ rSec' = AfterSection(rSec, ok, Len(rPages[rPage].sections))
    /\ UNCHANGED <<rpc, rPages, rPage, rBase, rResults>>
    /\ UNCHANGED notRunVars

\* the return nil after the section loop
Run_Return ==
    /\ rpc = "sections"
    /\ rSec > Len(rPages[rPage].sections)
    /\ rpc' = "returned"
    /\ rResults' = Append(rResults, "nil")
    /\ UNCHANGED <<rPages, rPage, rSec, rLog, rBase, rUploads>>
    /\ UNCHANGED notRunVars

\* the loop of SeedContent enters processPage for the next page, or ends
Run_NextPage ==
    /\ rpc = "returned"
    /\ IF rPage < Len(rPages)
         THEN /\ rPage' = rPage + 1
              /\ rpc' = "main"
              /\ rSec' = 1
              /\ rBase' = Len(rLog)
              /\ rUploads' = <<>>
         ELSE /\ rpc' = "done"
              /\ UNCHANGED <<rPage, rSec, rBase, rUploads>>
    /\ UNCHANGED <<rPages, rLog, rResults>>
    /\ UNCHANGED notRunVars

NextRun ==
    \/ Run_UploadMain
    \/ Run_UploadSection
    \/ Run_Return
    \/ Run_NextPage

SpecRun == InitRun /\ [][NextRun]_vars

\* the requests of the page's i-th upload are the i-th pair of the page's
\* part of the log: one upload's delete and add, then the next upload's
OneAtATime(i) ==
    SubSeq(rLog, rBase + 2 * i - 1, rBase + 2 * i)
        = UploadRequests(PartTitle(rPages[rPage], rUploads[i].part))

\* C23: within a page the main content is uploaded first and the sections
\* follow in extraction order, each upload's requests complete before the
\* next upload's begin; a failed section upload neither stops the
\* remaining sections nor fails the page, while a failed main upload fails
\* the page with none of its sections uploaded.
C23_UploadOrder ==
    rpc # "off" =>
        /\ Len(rLog) = rBase + 2 * Len(rUploads)
        /\ \A i \in 1..Len(rUploads) :
              /\ rUploads[i].part = i - 1
              /\ OneAtATime(i)
              /\ i > 1 => rUploads[1].ok
        /\ rpc \in {"returned", "done"} =>
              /\ Len(rUploads) >= 1
              /\ IF rUploads[1].ok
                   THEN /\ Len(rUploads) = 1 + Len(rPages[rPage].sections)
                        /\ rResults[rPage] = "nil"
                   ELSE /\ Len(rUploads) = 1
                        /\ rResults[rPage] = "failed to upload main content"

\* a page whose first section upload failed and whose second was attempted
\* all the same, returned without error
C23_Witness ==
    /\ rpc = "returned"
    /\ Len(rUploads) = 3
    /\ rUploads[1].ok
    /\ ~rUploads[2].ok
    /\ rResults[rPage] = "nil"

\* C29: within one run the source keys of the uploads are pairwise
\* distinct, so no delete targets the source key of an earlier upload of
\* the run.
C29_DistinctSourceKeys ==
    \A i \in 1..Len(rLog), j \in 1..Len(rLog) :
        (i < j /\ rLog[i].op = "add") => rLog[j].source # rLog[i].source

\* ======================================================================
\* updatePopularQueries (handlers/search.go) and the two statements of
\* PopularQueryRepositoryImpl it runs, for the searches of one query text
\* ======================================================================

MaxSearches == 3
MaxCount == 2

\* a value as the decimal(5,2) column keeps it: num / den rounded to hundredths
RoundToColumn(num, den) == (2 * num + den) \div (2 * den)

\* SET avg_results_count = (avg_results_count * (search_count - 1) + ?) / search_count
AvgAfter(avg, n, c) == RoundToColumn(avg * (n - 1) + c * 100, n)

InitPopular ==
    /\ \E k \in 1..MaxSearches : pqCounts \in [1..k -> 0..MaxCount]
    /\ pqStep = [i \in DOMAIN pqCounts |-> "inc"]
    /\ pqRow = [exists |-> FALSE, search_count |-> 0, avg |-> 0]
    /\ pqFailed = FALSE
    /\ UploadIdle
    /\ SeedIdle
    /\ PageIdle
    /\ ClientIdle
    /\ QueryIdle
    /\ SearchIdle
    /\ HandlerIdle
    /\ RunIdle
    /\ LimiterIdle
    /\ DeadlineIdle
    /\ CleanIdle

\* INSERT ... ON CONFLICT (query_text) DO UPDATE SET search_count = search_count + 1;
\* on an error updatePopularQueries returns
IncrementCount(i) ==
    /\ pqStep[i] = "inc"
    /\ \E ok \in BOOLEAN :
         IF ok
           THEN /\ pqRow' = IF pqRow.exists
                             THEN [pqRow EXCEPT !.search_count = @ + 1]
                             ELSE [exists |-> TRUE, search_count |-> 1, avg |-> 0]
                /\ pqStep' = [pqStep EXCEPT ![i] = "stats"]
                /\ UNCHANGED pqFailed
           ELSE /\ pqFailed' = TRUE
                /\ pqStep' = [pqStep EXCEPT ![i] = "done"]
                /\ UNCHANGED pqRow
    /\ UNCHANGED pqCounts
    /\ UNCHANGED notPopularVars

\* UPDATE popular_queries SET avg_results_count = ... WHERE query_text = ?
UpdateStats(i) ==
    /\ pqStep[i] = "stats"
    /\ \E ok \in BOOLEAN :
         IF ok /\ pqRow.exists
           THEN /\ pqRow' = [pqRow EXCEPT
                              !.avg = AvgAfter(pqRow.avg, pqRow.search_count, pqCounts[i])]
                /\ UNCHANGED pqFailed
           ELSE /\ pqFailed' = (~ok \/ pqFailed)
                /\ UNCHANGED pqRow
    /\ pqStep' = [pqStep EXCEPT ![i] = "done"]
    /\ UNCHANGED pqCounts
    /\ UNCHANGED notPopularVars

NextPopular ==
    \/ \E i \in DOMAIN pqStep : IncrementCount(i)
    \/ \E i \in DOMAIN pqStep : UpdateStats(i)

SpecPopular == InitPopular /\ [][NextPopular]_vars

RECURSIVE SumOf(_)
SumOf(cs) == IF cs = <<>> THEN 0 ELSE cs[1] + SumOf(Tail(cs))

AllDone == pqStep # <<>> /\ \A i \in DOMAIN pqStep : pqStep[i] = "done"

\* C27: once the updatePopularQueries tasks of the k searches of a query
\* text have all completed without a database error, in whatever order
\* their statements ran, search_count is k and avg_results_count is the
\* arithmetic mean of the k result counts.
C27_PopularityStats ==
    (AllDone /\ ~pqFailed) =>
        /\ pqRow.search_count = Len(pqCounts)
        /\ pqRow.avg * Len(pqCounts) = 100 * SumOf(pqCounts)

\* ======================================================================
\* RateLimiter (middleware): RateLimit and cleanupVisitors, on a clock that
\* counts ticks of 30 seconds
\* ======================================================================

Minute == 2
CleanupAge == 10

MaxRate == 2
MaxTime == 12
MaxRequests == 3

IPs == {"10.0.0.1", "10.0.0.2"}

NoVisitor == [exists |-> FALSE, lastSeen |-> 0, count |-> 0]

ExpiredOnAnyGap(since) == since > 0

\* time.Since(v.lastSeen) > time.Minute
Expired(since) == since > Minute

\* time.Since(v.lastSeen) > time.Minute*5
Stale(since) == since > CleanupAge

InitLimiter ==
    /\ rlRate \in 1..MaxRate
    /\ rlNow = 0
    /\ visitors = [ip \in IPs |-> NoVisitor]
    /\ rlSent = [ip \in IPs |-> <<>>]
    /\ rlAdmitted = [ip \in IPs |-> <<>>]
    /\ rlRejected = [ip \in IPs |-> 0]
    /\ UploadIdle
    /\ SeedIdle
    /\ PageIdle
    /\ ClientIdle
    /\ QueryIdle
    /\ SearchIdle
    /\ HandlerIdle
    /\ RunIdle
    /\ PopularIdle
    /\ DeadlineIdle
    /\ CleanIdle

RECURSIVE Requests(_)
\* the number of requests received so far
Requests(ips) ==
    IF ips = {} THEN 0
    ELSE LET ip == CHOOSE x \in ips : TRUE
         IN Len(rlSent[ip]) + Requests(ips \ {ip})

\* the handler RateLimit returns, for a request of ip: everything between
\* rl.mu.Lock() and rl.mu.Unlock(), and the c.Next() or 429 that follows
RateLimit(ip) ==
    /\ Requests(IPs) < MaxRequests
    /\ rlSent' = [rlSent EXCEPT ![ip] = Append(@, rlNow)]
    /\ IF ~visitors[ip].exists \/ Expired(rlNow - visitors[ip].lastSeen)
         THEN /\ visitors' = [visitors EXCEPT
                                 ![ip] = [exists |-> TRUE, lastSeen |-> rlNow, count |-> 1]]
              /\ rlAdmitted' = [rlAdmitted EXCEPT ![ip] = Append(@, rlNow)]
              /\ UNCHANGED rlRejected
         ELSE IF visitors[ip].count >= rlRate
                THEN /\ rlRejected' = [rlRejected EXCEPT ![ip] = @ + 1]
                     /\ UNCHANGED <<visitors, rlAdmitted>>
                ELSE /\ visitors' = [visitors EXCEPT
                                        ![ip] = [exists |-> TRUE, lastSeen |-> rlNow,
                                                 count |-> @.count + 1]]
                     /\ rlAdmitted' = [rlAdmitted EXCEPT ![ip] = Append(@, rlNow)]
                     /\ UNCHANGED rlRejected
    /\ UNCHANGED <<rlRate, rlNow>>
    /\ UNCHANGED notLimiterVars

\* one firing of the ticker of cleanupVisitors, which ticks every rl.cleanup
\* (one minute): under the lock, the visitors not seen for five minutes go
cleanupVisitors ==
    /\ rlNow > 0
    /\ rlNow % Minute = 0
    /\ visitors' = [ip \in IPs |->
                      IF visitors[ip].exists /\ Stale(rlNow - visitors[ip].lastSeen)
                        THEN NoVisitor ELSE visitors[ip]]
    /\ UNCHANGED <<rlRate, rlNow, rlSent, rlAdmitted, rlRejected>>
    /\ UNCHANGED notLimiterVars

\* 30 seconds pass
Tick ==
    /\ rlNow < MaxTime
    /\ rlNow' = rlNow + 1
    /\ UNCHANGED <<rlRate, visitors, rlSent, rlAdmitted, rlRejected>>
    /\ UNCHANGED notLimiterVars

NextLimiter ==
    \/ \E ip \in IPs : RateLimit(ip)
    \/ cleanupVisitors
    \/ Tick

SpecLimiter == InitLimiter /\ [][NextLimiter]_vars

\* how many of the times ts lie in the minute that starts at w, ends included
InWindow(ts, w) ==
    Cardinality({i \in 1..Len(ts) : ts[i] >= w /\ ts[i] <= w + Minute})

\* the most of the times ts that any one minute holds
MostPerMinute(ts) ==
    IF ts = <<>> THEN 0
    ELSE CHOOSE n \in 0..Len(ts) :
            /\ \E i \in 1..Len(ts) : InWindow(ts, ts[i]) = n
            /\ \A i \in 1..Len(ts) : InWindow(ts, ts[i]) <= n

\* C25: a client IP that never sends more than R requests within any one
\* minute is never answered 429.
C25_NeverRejectedBelowRate ==
    \A ip \in IPs :
        (rlSent # <<>> /\ MostPerMinute(rlSent[ip]) <= rlRate) => rlRejected[ip] = 0

RECURSIVE CurrentRun(_)
\* the length of the longest tail of the times ts in which no two
\* neighbours lie more than a minute apart
CurrentRun(ts) ==
    IF Len(ts) <= 1 THEN Len(ts)
    ELSE IF Expired(ts[Len(ts)] - ts[Len(ts) - 1])
           THEN 1
           ELSE 1 + CurrentRun(SubSeq(ts, 1, Len(ts) - 1))

\* C26: for every IP and every minute, the requests of the IP admitted
\* within the minute number at most the configured rate, whatever the
\* order of the requests of all IPs and of the cleanup; and the counter of
\* an IP is a function of that IP's own admitted requests alone.
C26_AdmittedWithinRate ==
    rlSent # <<>> =>
        \A ip \in IPs :
            /\ MostPerMinute(rlAdmitted[ip]) <= rlRate
            /\ visitors[ip].exists =>
                  /\ visitors[ip].count = CurrentRun(rlAdmitted[ip])
                  /\ visitors[ip].lastSeen = rlAdmitted[ip][Len(rlAdmitted[ip])]
            /\ Len(rlAdmitted[ip]) + rlRejected[ip] = Len(rlSent[ip])

\* both IPs were admitted and one of them was then refused at the rate,
\* after the cleanup had removed a visitor
C26_Witness ==
    /\ rlSent # <<>>
    /\ rlRate = 1
    /\ \E ip \in IPs, other \in IPs :
          /\ ip # other
          /\ rlRejected[ip] = 1
          /\ Len(rlAdmitted[ip]) = 1
          /\ Len(rlAdmitted[other]) = 1
          /\ ~visitors[other].exists

\* ======================================================================
\* SearchContextWithRetry / retryOperation as HandleSearch runs it: under
\* the context made by context.WithTimeout(c.Request.Context(), 10*time.Second)
\* ======================================================================

RequestTimeout == 10000

MaxOpHalfSeconds == 6

\* how long one call of operation() (the search request to the provider) may take
OpDurations == {500 * s : s \in 0..MaxOpHalfSeconds}

\* ctx.Err() once the deadline has passed
DeadlineErr == [kind |-> "context deadline exceeded", retries |-> 0, cause |-> "none"]

\* ctx.Done() is closed at time t; at the deadline itself the timer may or may not have fired
DoneAt(t) == IF t > RequestTimeout THEN {TRUE}
             ELSE IF t = RequestTimeout THEN {TRUE, FALSE} ELSE {FALSE}

InitDeadline ==
    /\ dpc = "check"
    /\ dNow = 0
    /\ dAttempt = 0
    /\ dCalls = 0
    /\ dResult = NoResult
    /\ UploadIdle
    /\ SeedIdle
    /\ PageIdle
    /\ ClientIdle
    /\ QueryIdle
    /\ SearchIdle
    /\ HandlerIdle
    /\ RunIdle
    /\ PopularIdle
    /\ LimiterIdle
    /\ CleanIdle

\* the select at the head of the loop: case <-ctx.Done(): return ctx.Err(); default:
SearchContextWithRetry_Check ==
    /\ dpc = "check"
    /\ \E done \in DoneAt(dNow) :
         IF done
           THEN /\ dResult' = DeadlineErr
                /\ dpc' = "returned"
           ELSE /\ dpc' = "operation"
                /\ UNCHANGED dResult
    /\ UNCHANGED <<dNow, dAttempt, dCalls>>
    /\ UNCHANGED notDeadlineVars

\* err := operation(), and the two returns that follow it
SearchContextWithRetry_Operation ==
    /\ dpc = "operation"
    /\ dCalls' = dCalls + 1
    /\ \E took \in OpDurations, e \in ErrClass \cup {"nil"} :
         /\ dNow' = dNow + took
         /\ IF e = "nil"
              THEN /\ dResult' = Nil
                   /\ dpc' = "returned"
              ELSE IF IsLastAttempt(dAttempt)
                     THEN /\ dResult' = Wrapped(e)
                          /\ dpc' = "returned"
                     ELSE /\ dpc' = "wait"
                          /\ UNCHANGED dResult
    /\ UNCHANGED dAttempt
    /\ UNCHANGED notDeadlineVars

\* select { case <-ctx.Done(): return ctx.Err(); case <-time.After(delay): }
SearchContextWithRetry_Wait ==
    /\ dpc = "wait"
    /\ \E done \in DoneAt(dNow + Delay(dAttempt)) :
         IF done
           THEN /\ dNow' = (IF dNow > RequestTimeout THEN dNow ELSE RequestTimeout)
                /\ dResult' = DeadlineErr
                /\ dpc' = "returned"
                /\ UNCHANGED dAttempt
           ELSE /\ dNow' = dNow + Delay(dAttempt)
                /\ dAttempt' = dAttempt + 1
                /\ dpc' = "check"
                /\ UNCHANGED dResult
    /\ UNCHANGED dCalls
    /\ UNCHANGED notDeadlineVars

NextDeadline ==
    \/ SearchContextWithRetry_Check
    \/ SearchContextWithRetry_Operation
    \/ SearchContextWithRetry_Wait

SpecDeadline == InitDeadline /\ [][NextDeadline]_vars

\* C22: on the query path a provider search that fails on every attempt
\* is returned as the error wrapped after the retries, after all
\* MaxRetries+1 attempts were made.
C22_RetriesExhausted ==
    (dpc = "returned" /\ dResult # Nil) =>
        /\ dCalls = MaxRetries + 1
        /\ dResult.kind = "operation failed after retries"

\* ======================================================================
\* ContentProcessor.CleanContent (alchemyst/service.go), on texts that are
\* sequences of characters
\* ======================================================================

MaxTokens == 6

\* the pieces the texts are put together from
Tokens == { <<"[", "[">>, <<"]", "]">>, <<"|">>, <<"a">>, <<"<">>, <<">">>, <<" ">> }

RECURSIVE Flat(_)
\* the characters of a sequence of pieces
Flat(ps) == IF ps = <<>> THEN <<>> ELSE ps[1] \o Flat(Tail(ps))

\* the texts of at most max pieces
Texts(max) == {Flat(ps) : ps \in UNION {[1..n -> Tokens] : n \in 0..max}}

\* the index of the first c in s at or after i, 0 when there is none
IndexFrom(s, c, i) ==
    IF \E j \in i..Len(s) : s[j] = c
      THEN CHOOSE j \in i..Len(s) : s[j] = c /\ \A k \in i..(j - 1) : s[k] # c
      ELSE 0

RECURSIVE RemoveTags(_)
\* htmlTags.ReplaceAllString(content, ""), htmlTags = <[^>]*>
RemoveTags(s) ==
    IF s = <<>> THEN <<>>
    ELSE IF s[1] = "<" /\ IndexFrom(s, ">", 2) # 0
           THEN RemoveTags(SubSeq(s, IndexFrom(s, ">", 2) + 1, Len(s)))
           ELSE <<s[1]>> \o RemoveTags(Tail(s))

RECURSIVE TrimLeft(_, _)
TrimLeft(s, cut) ==
    IF s # <<>> /\ s[1] \in cut THEN TrimLeft(Tail(s), cut) ELSE s

RECURSIVE TrimRight(_, _)
TrimRight(s, cut) ==
    IF s # <<>> /\ s[Len(s)] \in cut THEN TrimRight(SubSeq(s, 1, Len(s) - 1), cut) ELSE s

\* strings.Trim(s, cutset)
Trim(s, cut) == TrimRight(TrimLeft(s, cut), cut)

RECURSIVE Split(_, _)
\* strings.Split(s, sep) for a separator of one character
Split(s, sep) ==
    IF IndexFrom(s, sep, 1) = 0 THEN <<s>>
    ELSE <<SubSeq(s, 1, IndexFrom(s, sep, 1) - 1)>>
            \o Split(SubSeq(s, IndexFrom(s, sep, 1) + 1, Len(s)), sep)

\* the function CleanContent replaces a wiki link with
LinkText(link) ==
    LET parts == Split(Trim(link, {"[", "]"}), "|")
    IN  IF Len(parts) > 1 THEN parts[2] ELSE parts[1]

\* the index of the last character of the match of \[\[[^\]]*\]\] that
\* starts at the head of s, 0 when there is none
LinkEnd(s) ==
    IF Len(s) >= 4 /\ s[1] = "[" /\ s[2] = "["
         /\ IndexFrom(s, "]", 3) # 0
         /\ IndexFrom(s, "]", 3) < Len(s)
         /\ s[IndexFrom(s, "]", 3) + 1] = "]"
      THEN IndexFrom(s, "]", 3) + 1
      ELSE 0

RECURSIVE ReplaceLinks(_)
\* wikiLinks.ReplaceAllStringFunc(content, ...)
ReplaceLinks(s) ==
    IF s = <<>> THEN <<>>
    ELSE IF LinkEnd(s) # 0
           THEN LinkText(SubSeq(s, 1, LinkEnd(s)))
                    \o ReplaceLinks(SubSeq(s, LinkEnd(s) + 1, Len(s)))
           ELSE <<s[1]>> \o ReplaceLinks(Tail(s))

\* the characters \s matches
Whitespace == {" ", "\n", "\t"}

RECURSIVE CollapseWhitespace(_)
\* multiWhitespace.ReplaceAllString(content, " "), multiWhitespace = \s+
CollapseWhitespace(s) ==
    IF s = <<>> THEN <<>>
    ELSE IF s[1] \in Whitespace
           THEN <<" ">> \o CollapseWhitespace(TrimLeft(s, Whitespace))
           ELSE <<s[1]>> \o CollapseWhitespace(Tail(s))

RECURSIVE KeepLines(_, _)
\* the loop over the lines: each trimmed, at most two empty lines in a row kept
KeepLines(lines, emptyLines) ==
    IF lines = <<>> THEN <<>>
    ELSE IF Trim(lines[1], Whitespace) = <<>>
           THEN (IF emptyLines + 1 <= 2 THEN << <<>> >> ELSE <<>>)
                    \o KeepLines(Tail(lines), emptyLines + 1)
           ELSE <<Trim(lines[1], Whitespace)>> \o KeepLines(Tail(lines), 0)

RECURSIVE JoinLines(_)
\* strings.Join(cleaned, "\n")
JoinLines(lines) ==
    IF lines = <<>> THEN <<>>
    ELSE IF Len(lines) = 1 THEN lines[1]
    ELSE lines[1] \o <<"\n">> \o JoinLines(Tail(lines))

CleanContent(content) ==
    Trim(JoinLines(KeepLines(Split(
        CollapseWhitespace(ReplaceLinks(RemoveTags(content))), "\n"), 0)), Whitespace)

InitClean ==
    /\ clpc = "input"
    /\ clInput \in Texts(MaxTokens)
    /\ clOnce = <<>>
    /\ clTwice = <<>>
    /\ UploadIdle
    /\ SeedIdle
    /\ PageIdle
    /\ ClientIdle
    /\ QueryIdle
    /\ SearchIdle
    /\ HandlerIdle
    /\ RunIdle
    /\ PopularIdle
    /\ LimiterIdle
    /\ DeadlineIdle

\* CleanContent on the text
CleanContent_Once ==
    /\ clpc = "input"
    /\ clOnce' = CleanContent(clInput)
    /\ clpc' = "once"
    /\ UNCHANGED <<clInput, clTwice>>
    /\ UNCHANGED notCleanVars

\* CleanContent on its own result
CleanContent_Twice ==
    /\ clpc = "once"
    /\ clTwice' = CleanContent(clOnce)
    /\ clpc' = "twice"
    /\ UNCHANGED <<clInput, clOnce>>
    /\ UNCHANGED notCleanVars

NextClean ==
    \/ CleanContent_Once
    \/ CleanContent_Twice

SpecClean == InitClean /\ [][NextClean]_vars

\* C21: CleanContent is idempotent: applied to its own result it changes nothing.
C21_Idempotent ==
    clpc = "twice" => clTwice = clOnce

====
